---- MODULE Spec2Model ----
(***************************************************************************)
(* NovaAPI client (Chethan1994/api_call_extension).                        *)
(*                                                                         *)
(* The repository keeps several revisions of the same component side by    *)
(* side in one file.  Each revision is modelled as a "variant":            *)
(*   app1  src/App.tsx 14-467      (environments, handleSend 97-195)        *)
(*   app2  src/App.tsx 479-909     (handleSend 541-630)                     *)
(*   ed1   src/components/Editor.tsx 31-576   (executeRequest 180-241)      *)
(*   ed2   src/components/Editor.tsx 578-1020 (executeRequest 772-839)      *)
(*                                                                         *)
(* Strings are sequences of one-character strings, so that prefix tests,   *)
(* splitting and substring search are computed and not assumed.            *)
(*                                                                         *)
(* Spec        : the execution driver (handleSend / executeRequest), with  *)
(*               the handler callable while an earlier call is in flight.  *)
(* SpecOptions : what a call hands to fetch, over all requests.            *)
(* SpecGen     : the snippet template engine (generateLocalCode).          *)
(* SpecJson    : the quick operations of the JSON query engine (JsonOps).  *)
(* SpecFilter  : the advanced filter of the JSON query engine.             *)
(* SpecImport  : the import dialog (curl, SOAP, raw payload).              *)
(* SpecSearch  : the quick search of the JSON query engine.                *)
(* SpecResponse: what a call shows of the response it receives.            *)
(* SpecInterpolate: the placeholders of a request and what is sent.        *)
(* SpecLoad    : the first render and the loaders of the stored documents. *)
(* SpecTable   : the table of the response (DataTable).                     *)
(* SpecReset   : the advanced filter with its Reset All button.            *)
(* SpecHistory : the request editor and the history records (App).         *)
(* SpecEnv     : the environment list and its selections.                  *)
(* SpecAuth    : the local profiles (AuthModal).                           *)
(* SpecExecute : the execution driver behind the Execute button, fair.     *)
(***************************************************************************)
EXTENDS Integers, Sequences, FiniteSets, TLC

VARIABLES
    variant,           \* which revision of the execution driver runs
    config,            \* the request being edited: url, method, body
    isSoap,            \* Editor.tsx:151 SOAP toggle (ed1 only)
    activeEnv,         \* App.tsx:60 the active environment, or NoEnv
    loading,           \* the loading flag
    history,           \* the history list, most recent first
    originalResponse,  \* the response shown after the call
    inflight,          \* calls suspended at "await fetch" / the FTP timer
    nextId,            \* number of calls started so far
    completed,         \* the last call that ran to its end, and how
    \* snippet template engine
    genVariant,        \* which revision of generateLocalCode runs
    descriptor,        \* the request descriptor: url, method, headers, body
    codeLanguage,      \* the selected target identifier
    generatedCode,     \* the outcome of the last generateLocalCode call
    \* JSON query engine
    processedData,     \* App.tsx:30 the response data the operations work on
    currentActionCode, \* App.tsx:41 the code of the last operation
    criteria,          \* JsonOps.tsx:21 the criteria of the advanced filter
    matchType,         \* JsonOps.tsx:20 "AND" or "OR"
    availableFields,   \* JsonOps.tsx:24 the discovered field paths, sorted
    flattenedData,     \* DataTable.tsx:41 the rows of the table
    \* import dialog
    input,             \* part_001:12 the text pasted into the dialog
    showImport,        \* whether the dialog is open
    requestConfig,     \* App.tsx:28 the fields of the request an import replaces
    \* quick search
    searchKey,         \* JsonOps.tsx:18 the text of the search field
    shownRefs,         \* which object each element of processedData is
    \* the response
    reqHeaders,        \* config.headers / Editor.tsx:42 reqHeaders
    transformationScript, \* config.transformationScript
    responseData,      \* data, raw and type of originalResponse / activeItem
    \* persisted documents
    localStorage,      \* the text stored under each key, if any
    mounted,           \* "no", "yes", or "failed" when the first render raised
    loadedDocs,        \* what the loaders returned for each key
    \* the table
    mode,              \* config.processingMode: "client" or "server"
    columnFilters,     \* DataTable.tsx:15 the filter text of each column
    sortKey,           \* DataTable.tsx:16 the sorted column, or null
    sortOrder,         \* DataTable.tsx:17 "asc" or "desc"
    bodyType,          \* config.bodyType
    processedRows,     \* DataTable.tsx:53 the rows shown (the memo processedData)
    \* the request editor and the history records
    headerObjects,     \* the Header objects ever created; a reference is an index
    editorConfig,      \* App.tsx:28 config, its headers as references
    historyItems,      \* App.tsx:29 history, each request's headers as references
    sending,           \* the config handleSend captured, while its call is in flight
    editCount,         \* the number of edits of the request so far
    \* environments
    environments,      \* App.tsx:50 the ids of the environments, in list order
    activeEnvId,       \* App.tsx:51 the environment selected in the top bar, or null
    showSettings,      \* App.tsx:46 whether SettingsModal is mounted
    selectedEnvId,     \* SettingsModal selectedEnvId, or null
    nextEnvId,         \* the number of environments created so far
    \* local profiles
    novaUsers,         \* the text stored under nova_users, if any
    user,              \* App.tsx:53 the authenticated user, or null
    showAuth,          \* App.tsx:47 whether AuthModal is mounted
    isLogin,           \* AuthModal.tsx:11 login (TRUE) or registration
    error,             \* AuthModal.tsx:14 the message shown
    authOutcome        \* what the last submission did: "none", "auth", "refused"

execVars == <<variant, config, isSoap, activeEnv, loading, history,
              originalResponse, inflight, nextId, completed>>

genVars == <<genVariant, descriptor, codeLanguage, generatedCode>>

jsonVars == <<processedData, currentActionCode, criteria, matchType,
              availableFields, flattenedData>>

importVars == <<input, showImport, requestConfig>>

searchVars == <<searchKey, shownRefs>>

respVars == <<reqHeaders, transformationScript, responseData>>

loadVars == <<localStorage, mounted, loadedDocs>>

tableVars == <<mode, columnFilters, sortKey, sortOrder, bodyType, processedRows>>

histVars == <<headerObjects, editorConfig, historyItems, sending, editCount>>

envVars == <<environments, activeEnvId, showSettings, selectedEnvId, nextEnvId>>

authVars == <<novaUsers, user, showAuth, isLogin, error, authOutcome>>

uiVars == <<histVars, envVars, authVars>>

vars == <<execVars, genVars, jsonVars, importVars, searchVars, respVars, loadVars, tableVars, uiVars>>

\* the variables each component leaves alone
notExec   == <<genVars, jsonVars, importVars, searchVars, respVars, loadVars, tableVars, uiVars>>
notGen    == <<execVars, jsonVars, importVars, searchVars, respVars, loadVars, tableVars, uiVars>>
notJson   == <<execVars, genVars, importVars, searchVars, respVars, loadVars, tableVars, uiVars>>
notImport == <<execVars, genVars, jsonVars, searchVars, respVars, loadVars, tableVars, uiVars>>
notSearch == <<execVars, genVars, importVars, respVars, loadVars, tableVars, uiVars>>

----------------------------------------------------------------------------
(* Bounds *)

MaxRequests == 2       \* calls started in one behaviour
MaxKeys     == 2       \* own properties of a response object
MaxRows     == 2       \* rows of a response array
MaxCriteria == 2       \* criteria of the advanced filter
MaxTableRows == 3      \* rows of the array the table shows
MaxEdits    == 3       \* edits of the request in one behaviour
MaxHeaderObjects == 3  \* Header objects created in one behaviour
MaxEnvs     == 3       \* environments created in one behaviour

(* Program constants *)

HistoryCap == 50       \* .slice(0, 50)

----------------------------------------------------------------------------
(* Strings *)

Min(a, b) == IF a < b THEN a ELSE b

StartsWith(s, p) == Len(s) >= Len(p) /\ SubSeq(s, 1, Len(p)) = p

\* s.includes(p): p occurs in s as a contiguous run
Includes(s, p) ==
    \E i \in 0..(Len(s) - Len(p)) : SubSeq(s, i + 1, i + Len(p)) = p

\* position of the first occurrence of p in s at or after index from, 0 if none
IndexFrom(s, p, from) ==
    LET hits == { i \in from..(Len(s) - Len(p) + 1) :
                    SubSeq(s, i, i + Len(p) - 1) = p }
    IN  IF hits = {} THEN 0 ELSE CHOOSE i \in hits : \A j \in hits : i <= j

\* s.replace(/p/g, r) for a pattern p that is matched literally
RECURSIVE ReplaceAllFrom(_, _, _, _)
ReplaceAllFrom(s, p, r, from) ==
    LET i == IF p = <<>> THEN 0 ELSE IndexFrom(s, p, from)
    IN  IF i = 0 THEN SubSeq(s, from, Len(s))
        ELSE SubSeq(s, from, i - 1) \o r
                 \o ReplaceAllFrom(s, p, r, i + Len(p))

ReplaceAll(s, p, r) == ReplaceAllFrom(s, p, r, 1)

Str_http  == <<"h", "t", "t", "p">>
Str_https == <<"h", "t", "t", "p", "s", ":", "/", "/">>
Str_ftp   == <<"f", "t", "p", ":", "/", "/">>

UrlHttp == <<"h", "t", "t", "p", ":", "/", "/", "x">>
UrlFtp  == <<"f", "t", "p", ":", "/", "/", "x">>
UrlBare == <<"x">>

BodyEmpty == <<>>
BodyText  == <<"a">>
BodyVar   == <<"{", "{", "k", "}", "}">>

----------------------------------------------------------------------------
(* Environments and interpolation, App.tsx 85-95 *)

NoEnv == [variables |-> <<>>, none |-> TRUE]

EnvK(val, on) == [variables |-> << [key |-> <<"k">>, value |-> val, enabled |-> on] >>,
                  none |-> FALSE]

Environments == {NoEnv, EnvK(<<"v">>, TRUE), EnvK(<<"v">>, FALSE), EnvK(<<>>, TRUE)}

\* the text String.prototype.replace puts in for a match when it is given
\* the replacement string value: "$$" stands for "$" and "$&" for the
\* matched text (the values of the inputs hold no other "$" sequence)
RECURSIVE Substitution(_, _)
Substitution(value, matched) ==
    IF value = <<>> THEN <<>>
    ELSE IF Len(value) >= 2 /\ value[1] = "$" /\ value[2] = "$"
         THEN <<"$">> \o Substitution(SubSeq(value, 3, Len(value)), matched)
    ELSE IF Len(value) >= 2 /\ value[1] = "$" /\ value[2] = "&"
         THEN matched \o Substitution(SubSeq(value, 3, Len(value)), matched)
    ELSE <<Head(value)>> \o Substitution(Tail(value), matched)

\* the keys of the inputs hold no metacharacter of regular expressions, so
\* new RegExp(`{{${v.key}}}`, 'g') matches the placeholder literally
RECURSIVE InterpolateVars(_, _, _)
InterpolateVars(text, variables, i) ==
    IF i > Len(variables) THEN text
    ELSE LET v == variables[i]
             placeholder == <<"{", "{">> \o v.key \o <<"}", "}">>
             t == IF v.enabled /\ v.key # <<>>
                  THEN ReplaceAll(text, placeholder, Substitution(v.value, placeholder))
                  ELSE text
         IN  InterpolateVars(t, variables, i + 1)

interpolate(env, text) ==
    IF env.none THEN text ELSE InterpolateVars(text, env.variables, 1)

----------------------------------------------------------------------------
(* Snippet template engine: generateLocalCode                              *)
(*                                                                         *)
(* Three revisions:                                                        *)
(*   gen1  src/utils/codeGenerator.ts 4-88                                 *)
(*   gen2  src/utils/codeGenerator.ts 93-281 (scenario revision; headers   *)
(*         and body are those of the active scenario)                      *)
(*   gen3  src/unnamed/part_000 3-129                                      *)
(* A snippet is a sequence of tokens: each literal chunk of a template is  *)
(* one token, a line break is the token NL, an interpolated string is      *)
(* spliced in character by character.                                      *)

NL == "\n"

\* the backquote character of the Go and JavaScript templates
BQ == "BACKQUOTE"

GenVariants == {"gen1", "gen2", "gen3"}

RECURSIVE MapChars(_, _, _)
\* s.replace(/c/g, r) for a single character c
MapChars(s, c, r) ==
    IF s = <<>> THEN <<>>
    ELSE (IF Head(s) = c THEN r ELSE <<Head(s)>>) \o MapChars(Tail(s), c, r)

\* body.replace(/'/g, "'\\''")
ShellEscape(s) == MapChars(s, "'", <<"'", "\\", "'", "'">>)

\* body.replace(/"/g, "\\\"")
JavaEscape(s) == MapChars(s, "\"", <<"\\", "\"">>)

\* JSON.stringify(s) of a string s
JSONStringify(s) ==
    <<"\"">> \o MapChars(MapChars(s, "\\", <<"\\", "\\">>), "\"", <<"\\", "\"">>)
             \o <<"\"">>

\* headers.filter(h => h.enabled && h.key)
RECURSIVE EnabledHeaders(_)
EnabledHeaders(hs) ==
    IF hs = <<>> THEN <<>>
    ELSE (IF Head(hs).enabled /\ Head(hs).key # <<>> THEN <<Head(hs)>> ELSE <<>>)
             \o EnabledHeaders(Tail(hs))

\* the reduce where a key keeps the value written first
RECURSIVE HeaderObj_FirstWins(_, _)
HeaderObj_FirstWins(acc, hs) ==
    IF hs = <<>> THEN acc
    ELSE LET h == Head(hs)
             at == { i \in 1..Len(acc) : acc[i].key = h.key }
             put == IF at = {} THEN Append(acc, [key |-> h.key, value |-> h.value])
                    ELSE acc
         IN  HeaderObj_FirstWins(put, Tail(hs))

\* enabledHeaders.reduce((acc, h) => ({ ...acc, [h.key]: h.value }), {}):
\* an object keeps a key at the place of its first insertion with the value
\* written last
RECURSIVE HeaderObj(_, _)
HeaderObj(acc, hs) ==
    IF hs = <<>> THEN acc
    ELSE LET h == Head(hs)
             at == { i \in 1..Len(acc) : acc[i].key = h.key }
             put == IF at = {} THEN Append(acc, [key |-> h.key, value |-> h.value])
                    ELSE [i \in 1..Len(acc) |->
                             IF i \in at THEN [key |-> h.key, value |-> h.value]
                             ELSE acc[i]]
         IN  HeaderObj(put, Tail(hs))

\* JSON.stringify(headerObj, null, indent); pad is the indentation chunk
RECURSIVE JsonMembers(_, _, _)
JsonMembers(obj, i, pad) ==
    IF i > Len(obj) THEN <<>>
    ELSE <<NL, pad>> \o JSONStringify(obj[i].key) \o <<": ">>
             \o JSONStringify(obj[i].value)
             \o (IF i < Len(obj) THEN <<",">> ELSE <<>>)
             \o JsonMembers(obj, i + 1, pad)

JsonObject(obj, pad) ==
    IF obj = <<>> THEN <<"{}">>
    ELSE <<"{">> \o JsonMembers(obj, 1, pad) \o <<NL, "}">>

\* enabledHeaders.map(h => pre + key + mid + value + post).join(sep)
RECURSIVE JoinHeaders(_, _, _, _, _)
JoinHeaders(hs, pre, mid, post, sep) ==
    IF hs = <<>> THEN <<>>
    ELSE pre \o Head(hs).key \o mid \o Head(hs).value \o post
             \o (IF Len(hs) > 1 THEN sep ELSE <<>>)
             \o JoinHeaders(Tail(hs), pre, mid, post, sep)

\* new URL(url) for an ftp:// url whose remainder holds no port, user,
\* query or fragment: the host runs to the first "/", parsing fails on an
\* empty host or a space in the host, an empty path reads "/"
ParseFtpUrl(url) ==
    LET rest  == SubSeq(url, Len(Str_ftp) + 1, Len(url))
        slash == IndexFrom(rest, <<"/">>, 1)
        host  == IF slash = 0 THEN rest ELSE SubSeq(rest, 1, slash - 1)
        path  == IF slash = 0 THEN <<"/">> ELSE SubSeq(rest, slash, Len(rest))
    IN  [ok       |-> host # <<>> /\ ~Includes(host, <<" ">>),
         hostname |-> host,
         pathname |-> path]

\* the outcome of a call: a snippet, or an exception
Returned(text) == [called |-> TRUE,  raised |-> FALSE, text |-> text]
Raised         == [called |-> TRUE,  raised |-> TRUE,  text |-> <<>>]
NotGenerated   == [called |-> FALSE, raised |-> FALSE, text |-> <<>>]

\* codeGenerator.ts 4-88
generateLocalCode1(d, language) ==
    LET enabledHeaders == EnabledHeaders(d.headers)
        headerObj      == HeaderObj(<<>>, enabledHeaders)
    IN  CASE language = "curl" ->
                Returned(<<"curl --location --request ", d.method, " '">> \o d.url \o <<"'">>
                    \o JoinHeaders(enabledHeaders, <<" \\", NL, "--header '">>, <<": ">>, <<"'">>, <<>>)
                    \o (IF d.body # <<>> /\ d.method # "GET"
                        THEN <<" \\", NL, "--data-raw '">> \o ShellEscape(d.body) \o <<"'">>
                        ELSE <<>>))
          [] language = "javascript" ->
                Returned(<<"fetch(\"">> \o d.url \o <<"\", {", NL,
                      "  method: \"", d.method, "\",", NL, "  headers: ">>
                    \o JsonObject(headerObj, "  ") \o <<",", NL, "  ">>
                    \o (IF d.body # <<>> /\ d.method # "GET"
                        THEN <<"body: JSON.stringify(">> \o d.body \o <<")">>
                        ELSE <<>>)
                    \o <<NL, "})", NL, ".then(response => response.text())", NL,
                         ".then(result => console.log(result))", NL,
                         ".catch(error => console.log('error', error));">>)
          [] language = "python" ->
                Returned(<<"import requests", NL, "import json", NL, NL, "url = \"">>
                    \o d.url \o <<"\"", NL, "payload = ">>
                    \o (IF d.body # <<>> THEN d.body ELSE <<"None">>)
                    \o <<NL, "headers = ">> \o JsonObject(headerObj, "  ")
                    \o <<NL, NL, "response = requests.request(\"", d.method,
                         "\", url, headers=headers, data=payload)", NL,
                         "print(response.text)">>)
          [] language = "go" ->
                Returned(<<"package main", NL, NL, "import (", NL, "  \"fmt\"", NL,
                      "  \"strings\"", NL, "  \"net/http\"", NL, "  \"io/ioutil\"", NL,
                      ")", NL, NL, "func main() {", NL, "  url := \"">> \o d.url
                    \o <<"\"", NL, "  method := \"", d.method, "\"", NL,
                         "  payload := strings.NewReader(", BQ>> \o d.body \o <<BQ, ")", NL, NL,
                         "  client := &http.Client {}", NL,
                         "  req, _ := http.NewRequest(method, url, payload)", NL, NL, "  ">>
                    \o JoinHeaders(enabledHeaders, <<"req.Header.Add(\"">>, <<"\", \"">>,
                                   <<"\")">>, <<NL, "  ">>)
                    \o <<NL, NL, "  res, _ := client.Do(req)", NL, "  defer res.Body.Close()", NL, NL,
                         "  body, _ := ioutil.ReadAll(res.Body)", NL,
                         "  fmt.Println(string(body))", NL, "}">>)
          [] language = "java" ->
                Returned(<<"OkHttpClient client = new OkHttpClient().newBuilder().build();", NL,
                      "MediaType mediaType = MediaType.parse(\"text/plain\");", NL,
                      "RequestBody body = RequestBody.create(mediaType, \"">>
                    \o JavaEscape(d.body)
                    \o <<"\");", NL, "Request request = new Request.Builder()", NL,
                         "  .url(\"">> \o d.url \o <<"\")", NL,
                         "  .method(\"", d.method, "\", body)", NL, "  ">>
                    \o JoinHeaders(enabledHeaders, <<".addHeader(\"">>, <<"\", \"">>,
                                   <<"\")">>, <<NL, "  ">>)
                    \o <<NL, "  .build();", NL,
                         "Response response = client.newCall(request).execute();">>)
          [] OTHER -> Returned(<<"// Language not supported">>)

\* body && !['GET', 'HEAD'].includes(method)
SendsBody2(d) == d.body # <<>> /\ d.method \notin {"GET", "HEAD"}

\* codeGenerator.ts 93-281
generateLocalCode2(d, language) ==
    LET enabledHeaders == EnabledHeaders(d.headers)
        headerObj      == HeaderObj(<<>>, enabledHeaders)
    IN  IF d.method = "MONGO_QUERY" THEN
            CASE language = "node-mongodb" ->
                    Returned(<<"const { MongoClient } = require('mongodb');", NL, NL,
                          "async function runQuery() {", NL,
                          "  const client = new MongoClient('">> \o d.url
                        \o <<"');", NL, "  try {", NL, "    await client.connect();", NL,
                             "    const db = client.db('target_db');", NL,
                             "    const col = db.collection('target_collection');", NL,
                             "    ", NL, "    // Auto-generated query", NL,
                             "    const query = ">> \o d.body
                        \o <<";", NL, "    const result = await col.find(query).toArray();", NL,
                             "    console.log(result);", NL, "  } catch (err) {", NL,
                             "    console.error(\"Execution failed:\", err);", NL,
                             "  } finally {", NL, "    await client.close();", NL, "  }", NL,
                             "}", NL, NL, "runQuery();">>)
              [] language = "python-pymongo" ->
                    Returned(<<"from pymongo import MongoClient", NL, NL, "def run_query():", NL,
                          "    client = MongoClient('">> \o d.url
                        \o <<"')", NL, "    db = client['target_db']", NL,
                             "    collection = db['target_collection']", NL, "    ", NL,
                             "    # Auto-generated query", NL, "    query = ">> \o d.body
                        \o <<NL, "    results = collection.find(query)", NL,
                             "    for doc in results:", NL, "        print(doc)", NL, NL,
                             "if __name__ == \"__main__\":", NL, "    run_query()">>)
              [] OTHER ->
                    Returned(<<"// No template for ", language, " in MongoDB mode.">>)
        ELSE IF d.method = "SQL_QUERY" THEN
            CASE language = "node-pg" ->
                    Returned(<<"const { Client } = require('pg');", NL, NL,
                          "async function executeSql() {", NL,
                          "  const client = new Client({ connectionString: '">> \o d.url
                        \o <<"' });", NL, "  try {", NL, "    await client.connect();", NL,
                             "    const res = await client.query(", BQ>> \o d.body
                        \o <<BQ, ");", NL, "    console.log(res.rows);", NL,
                             "  } catch (err) {", NL, "    console.error(err.stack);", NL,
                             "  } finally {", NL, "    await client.end();", NL, "  }", NL,
                             "}", NL, NL, "executeSql();">>)
              [] language = "node-mysql2" ->
                    Returned(<<"const mysql = require('mysql2/promise');", NL, NL,
                          "async function executeSql() {", NL,
                          "  const connection = await mysql.createConnection('">> \o d.url
                        \o <<"');", NL, "  try {", NL,
                             "    const [rows, fields] = await connection.execute(", BQ>> \o d.body
                        \o <<BQ, ");", NL, "    console.log(rows);", NL,
                             "  } catch (err) {", NL, "    console.error(err);", NL,
                             "  } finally {", NL, "    await connection.end();", NL, "  }", NL,
                             "}", NL, NL, "executeSql();">>)
              [] language = "python-psycopg2" ->
                    Returned(<<"import psycopg2", NL, NL, "def execute_sql():", NL,
                          "    conn = psycopg2.connect('">> \o d.url
                        \o <<"')", NL, "    cur = conn.cursor()", NL, "    try:", NL,
                             "        cur.execute(\"\"\"">> \o d.body
                        \o <<"\"\"\")", NL, "        rows = cur.fetchall()", NL,
                             "        for row in rows:", NL, "            print(row)", NL,
                             "    except Exception as e:", NL,
                             "        print(f\"Error: {e}\")", NL, "    finally:", NL,
                             "        cur.close()", NL, "        conn.close()", NL, NL,
                             "if __name__ == \"__main__\":", NL, "    execute_sql()">>)
              [] language = "sql-raw" ->
                    Returned(<<"-- Raw Generated Query", NL>> \o d.body)
              [] OTHER ->
                    Returned(<<"// No template for ", language, " in SQL mode.">>)
        ELSE
            CASE language = "javascript-fetch" ->
                    Returned(<<"const executeRequest = async () => {", NL,
                          "  const options = {", NL, "    method: '", d.method, "',", NL,
                          "    headers: ">> \o JsonObject(headerObj, "  ") \o <<",", NL, "    ">>
                        \o (IF SendsBody2(d)
                            THEN <<"body: JSON.stringify(">> \o d.body \o <<")">> ELSE <<>>)
                        \o <<NL, "  };", NL, NL, "  try {", NL,
                             "    const response = await fetch('">> \o d.url
                        \o <<"', options);", NL, "    const data = await response.json();", NL,
                             "    return data;", NL, "  } catch (error) {", NL,
                             "    console.error('Fetch error:', error);", NL, "  }", NL, "};">>)
              [] language = "javascript-axios" ->
                    Returned(<<"import axios from 'axios';", NL, NL,
                          "const executeRequest = async () => {", NL, "  try {", NL,
                          "    const response = await axios({", NL, "      url: '">> \o d.url
                        \o <<"',", NL, "      method: '", d.method, "',", NL,
                             "      headers: ">> \o JsonObject(headerObj, "  ")
                        \o <<",", NL, "      ">>
                        \o (IF SendsBody2(d) THEN <<"data: ">> \o d.body ELSE <<>>)
                        \o <<NL, "    });", NL, "    return response.data;", NL,
                             "  } catch (error) {", NL,
                             "    console.error('Axios error:', error);", NL, "  }", NL, "};">>)
              [] language = "python-requests" ->
                    Returned(<<"import requests", NL, "import json", NL, NL,
                          "def execute_request():", NL, "    url = '">> \o d.url
                        \o <<"'", NL, "    headers = ">> \o JsonObject(headerObj, "    ")
                        \o <<NL, "    ">>
                        \o (IF SendsBody2(d) THEN <<"payload = ">> \o d.body
                            ELSE <<"payload = None">>)
                        \o <<NL, NL, "    try:", NL, "        response = requests.request(", NL,
                             "            \"", d.method, "\", ", NL, "            url, ", NL,
                             "            headers=headers, ", NL,
                             "            data=json.dumps(payload) if payload else None", NL,
                             "        )", NL, "        response.raise_for_status()", NL,
                             "        return response.json()", NL,
                             "    except requests.exceptions.RequestException as e:", NL,
                             "        print(f\"Error: {e}\")", NL, NL,
                             "if __name__ == \"__main__\":", NL,
                             "    result = execute_request()", NL, "    print(result)">>)
              [] language = "curl" ->
                    Returned(<<"curl -X ", d.method, " \"">> \o d.url \o <<"\" \\", NL, "  ">>
                        \o JoinHeaders(enabledHeaders, <<"-H \"">>, <<": ">>, <<"\"">>, <<" ">>)
                        \o <<" \\", NL, "  ">>
                        \o (IF SendsBody2(d)
                            THEN <<"-d '">> \o ShellEscape(d.body) \o <<"'">> ELSE <<>>))
              [] OTHER ->
                    Returned(<<"// Code template for ", language, " / ", d.method,
                               " is pending implementation.">>)

\* body && method !== 'GET'
SendsBody3(d) == d.body # <<>> /\ d.method # "GET"

\* part_000 3-129
generateLocalCode3(d, language) ==
    LET enabledHeaders == EnabledHeaders(d.headers)
        headerObj      == HeaderObj(<<>>, enabledHeaders)
        isFtp          == StartsWith(d.url, Str_ftp)
        parsed         == ParseFtpUrl(d.url)
    IN  IF isFtp THEN
            CASE language = "node-ftp" ->
                    IF ~parsed.ok THEN Raised
                    ELSE Returned(<<"const ftp = require(\"basic-ftp\")", NL, NL,
                          "async function example() {", NL,
                          "    const client = new ftp.Client()", NL,
                          "    client.ftp.verbose = true", NL, "    try {", NL,
                          "        await client.access({", NL, "            host: \"">>
                        \o parsed.hostname
                        \o <<"\",", NL, "            user: \"anonymous\",", NL,
                             "            password: \"password\",", NL,
                             "            secure: true", NL, "        })", NL,
                             "        console.log(await client.list())", NL,
                             "        await client.downloadTo(\"local-file.txt\", \"">>
                        \o parsed.pathname
                        \o <<"\")", NL, "    }", NL, "    catch(err) {", NL,
                             "        console.log(err)", NL, "    }", NL,
                             "    client.close()", NL, "}", NL, NL, "example()">>)
              [] OTHER ->
                    Returned(<<"// FTP operations typically require a specialized client library (e.g., 'basic-ftp' in Node.js).">>)
        ELSE
            CASE language = "react-axios" ->
                    Returned(<<"import React, { useEffect, useState } from 'react';", NL,
                          "import axios from 'axios';", NL, NL,
                          "const ApiComponent = () => {", NL,
                          "  const [data, setData] = useState(null);", NL,
                          "  const [loading, setLoading] = useState(true);", NL, NL,
                          "  useEffect(() => {", NL, "    const fetchData = async () => {", NL,
                          "      try {", NL, "        const response = await axios({", NL,
                          "          url: '">> \o d.url
                        \o <<"',", NL, "          method: '", d.method, "',", NL,
                             "          headers: ">> \o JsonObject(headerObj, "  ")
                        \o <<",", NL, "          ">>
                        \o (IF SendsBody3(d) THEN <<"data: ">> \o d.body ELSE <<>>)
                        \o <<NL, "        });", NL, "        setData(response.data);", NL,
                             "      } catch (err) {", NL, "        console.error(err);", NL,
                             "      } finally {", NL, "        setLoading(false);", NL,
                             "      }", NL, "    };", NL, "    fetchData();", NL, "  }, []);", NL, NL,
                             "  if (loading) return <div>Loading...</div>;", NL,
                             "  return <div>{JSON.stringify(data)}</div>;", NL, "};", NL, NL,
                             "export default ApiComponent;">>)
              [] language = "angular-http" ->
                    Returned(<<"import { HttpClient, HttpHeaders } from '@angular/common/http';", NL,
                          "import { Component, OnInit } from '@angular/core';", NL, NL,
                          "@Component({", NL, "  selector: 'app-api-call',", NL,
                          "  template: '<div *ngIf=\"data\">{{ data | json }}</div>'", NL,
                          "})", NL, "export class ApiCallComponent implements OnInit {", NL,
                          "  data: any;", NL, NL,
                          "  constructor(private http: HttpClient) {}", NL, NL,
                          "  ngOnInit() {", NL, "    const headers = new HttpHeaders(">>
                        \o JsonObject(headerObj, "  ")
                        \o <<");", NL, "    this.http.request('", d.method, "', '">> \o d.url
                        \o <<"', {", NL, "      headers,", NL, "      ">>
                        \o (IF SendsBody3(d) THEN <<"body: ">> \o d.body ELSE <<>>)
                        \o <<NL, "    }).subscribe(response => {", NL,
                             "      this.data = response;", NL, "    });", NL, "  }", NL, "}">>)
              [] language = "nextjs-server" ->
                    Returned(<<"// Next.js Server Action", NL, "'use server'", NL, NL,
                          "export async function fetchData() {", NL,
                          "  const response = await fetch('">> \o d.url
                        \o <<"', {", NL, "    method: '", d.method, "',", NL,
                             "    headers: ">> \o JsonObject(headerObj, "  ")
                        \o <<",", NL, "    ">>
                        \o (IF SendsBody3(d) THEN <<"body: ">> \o JSONStringify(d.body) ELSE <<>>)
                        \o <<",", NL, "    cache: 'no-store' // or 'force-cache'", NL, "  });", NL, NL,
                             "  if (!response.ok) throw new Error('Failed to fetch data');", NL,
                             "  return response.json();", NL, "}", NL, NL,
                             "// In your Server Component:", NL,
                             "// const data = await fetchData();">>)
              [] language = "js-fetch" ->
                    Returned(<<"fetch(\"">> \o d.url \o <<"\", {", NL,
                          "  method: \"", d.method, "\",", NL, "  headers: ">>
                        \o JsonObject(headerObj, "  ") \o <<",", NL, "  ">>
                        \o (IF SendsBody3(d) THEN <<"body: ">> \o JSONStringify(d.body) ELSE <<>>)
                        \o <<NL, "})", NL, ".then(response => response.json())", NL,
                             ".then(result => console.log(result))", NL,
                             ".catch(error => console.error('Error:', error));">>)
              [] OTHER ->
                    Returned(<<"// Code template for this configuration is being generated...">>)

generateLocalCode(v, d, language) ==
    CASE v = "gen1" -> generateLocalCode1(d, language)
      [] v = "gen2" -> generateLocalCode2(d, language)
      [] v = "gen3" -> generateLocalCode3(d, language)

\* part_004 18-29: the LANGUAGES list of the first App revision
LANGUAGES_App1 == <<"curl", "js-fetch", "ts-fetch", "js-axios", "ts-axios", "node-axios",
                    "node-https", "python-requests", "go-native", "java-okhttp">>

\* constants.tsx 19-25: the LANGUAGES list of the second App revision
LANGUAGES_App2 == <<"curl", "javascript", "python", "go", "java">>

Range(seq) == { seq[i] : i \in 1..Len(seq) }

\* the mode where the scenario revision does not test the method
Mode_MethodIgnored(v, d) ==
    CASE v = "gen1" -> "rest"
      [] v = "gen2" -> "rest"
      [] v = "gen3" -> IF StartsWith(d.url, Str_ftp) THEN "ftp" ELSE "rest"

\* the mode a descriptor selects in revision v
Mode(v, d) ==
    CASE v = "gen1" -> "rest"
      [] v = "gen2" -> IF d.method = "MONGO_QUERY" THEN "mongo-query"
                       ELSE IF d.method = "SQL_QUERY" THEN "sql-query"
                       ELSE "rest"
      [] v = "gen3" -> IF StartsWith(d.url, Str_ftp) THEN "ftp" ELSE "rest"

\* the target identifiers that have a template in revision v and mode m
Templates(v, m) ==
    CASE v = "gen1" -> {"curl", "javascript", "python", "go", "java"}
      [] v = "gen2" /\ m = "mongo-query" -> {"node-mongodb", "python-pymongo"}
      [] v = "gen2" /\ m = "sql-query" ->
             {"node-pg", "node-mysql2", "python-psycopg2", "sql-raw"}
      [] v = "gen2" /\ m = "rest" ->
             {"javascript-fetch", "javascript-axios", "python-requests", "curl"}
      [] v = "gen3" /\ m = "ftp" -> {"node-ftp"}
      [] v = "gen3" /\ m = "rest" ->
             {"react-axios", "angular-http", "nextjs-server", "js-fetch"}

\* the identifiers the language buttons of the App using revision v offer:
\* useState('javascript') (App.tsx:497) selects a template of gen1 only,
\* useState('js-fetch') (App.tsx:37) a template of gen3 only
Offered(v) ==
    CASE v = "gen1" -> Range(LANGUAGES_App2)
      [] v = "gen2" -> {}
      [] v = "gen3" -> Range(LANGUAGES_App1)

\* the target identifier selected before any button is pressed
DefaultLanguage(v) ==
    CASE v = "gen1" -> "javascript"
      [] v = "gen2" -> "curl"
      [] v = "gen3" -> "js-fetch"

\* every identifier a caller may pass, one of them known nowhere
TargetIds ==
    Range(LANGUAGES_App1) \cup Range(LANGUAGES_App2)
        \cup {"node-mongodb", "python-pymongo", "node-pg", "node-mysql2",
              "python-psycopg2", "sql-raw", "javascript-fetch", "javascript-axios",
              "node-ftp", "react-axios", "angular-http", "nextjs-server", "cobol"}

UrlFtpFile   == <<"f", "t", "p", ":", "/", "/", "x", "/", "f">>
UrlFtpNoHost == <<"f", "t", "p", ":", "/", "/">>

HeaderA(val, on) == [key |-> <<"A">>, value |-> val, enabled |-> on]

GenUrls    == {UrlHttp, UrlFtp, UrlFtpFile, UrlFtpNoHost}
GenMethods == {"GET", "HEAD", "POST", "MONGO_QUERY", "SQL_QUERY"}
GenBodies  == {<<>>, <<"{", "}">>, <<"'">>, <<"\"">>}
GenHeaders == { <<>>,
                <<HeaderA(<<"1">>, TRUE), HeaderA(<<"2">>, TRUE)>>,
                <<HeaderA(<<"1">>, FALSE),
                  [key |-> <<>>, value |-> <<"3">>, enabled |-> TRUE]>>,
                <<HeaderA(<<"1">>, TRUE),
                  [key |-> <<"B">>, value |-> <<"3">>, enabled |-> TRUE],
                  HeaderA(<<"1">>, FALSE),
                  HeaderA(<<"2">>, TRUE)>> }

Descriptors == [url : GenUrls, method : GenMethods, headers : GenHeaders, body : GenBodies]

GenIdle ==
    /\ genVariant = "gen1"
    /\ descriptor = [url |-> UrlHttp, method |-> "GET", headers |-> <<>>, body |-> <<>>]
    /\ codeLanguage = "javascript"
    /\ generatedCode = NotGenerated


----------------------------------------------------------------------------
(* JSON query engine: values *)

\* a JavaScript value: k is its kind, n the number (or 0/1 of a boolean),
\* s the characters of a string, m the own properties of an object or an
\* array in the order Object.keys lists them
JV(kind, n, s, m) == [k |-> kind, n |-> n, s |-> s, m |-> m]

JUndefined == JV("undefined", 0, <<>>, <<>>)
JNull      == JV("null", 0, <<>>, <<>>)
JBool(b)   == JV("boolean", IF b THEN 1 ELSE 0, <<>>, <<>>)
JNum(n)    == JV("number", n, <<>>, <<>>)
JStr(s)    == JV("string", 0, s, <<>>)

\* one own property
P(key, val) == [key |-> key, val |-> val]

JObj(members) == JV("object", 0, <<>>, members)

Digits == <<"0", "1", "2", "3", "4", "5", "6", "7", "8", "9">>

\* String(n) of a non-negative integer
RECURSIVE NatToStr(_)
NatToStr(n) ==
    IF n < 10 THEN <<Digits[n + 1]>>
    ELSE NatToStr(n \div 10) \o <<Digits[(n % 10) + 1]>>

\* an array: its own properties are the indices
JArr(items) ==
    JV("array", 0, <<>>, [i \in 1..Len(items) |-> P(NatToStr(i - 1), items[i])])

\* the elements of an array
Items(v) == [i \in 1..Len(v.m) |-> v.m[i].val]

\* the value in a condition: !v is false
Truthy(v) ==
    \/ v.k \in {"object", "array"}
    \/ v.k \in {"number", "boolean"} /\ v.n # 0
    \/ v.k = "string" /\ v.s # <<>>

\* typeof v === 'object'
TypeofObject(v) == v.k \in {"object", "array", "null"}

\* typeof v === 'object' && v !== null && !Array.isArray(v)
IsPlainObject(v) == v.k = "object"

IsDigit(c) == \E i \in 1..Len(Digits) : Digits[i] = c

DigitVal(c) == (CHOOSE i \in 1..Len(Digits) : Digits[i] = c) - 1

\* the number a string of digits denotes
RECURSIVE DigitsVal(_)
DigitsVal(s) ==
    IF s = <<>> THEN 0
    ELSE DigitsVal(SubSeq(s, 1, Len(s) - 1)) * 10 + DigitVal(s[Len(s)])

\* an array index: own properties with such keys come first, ascending
IsIndexKey(key) ==
    /\ key # <<>>
    /\ \A i \in 1..Len(key) : IsDigit(key[i])
    /\ Len(key) = 1 \/ key[1] # "0"

\* acc[key] = val on the property list acc: a known key keeps its place, a
\* new index goes among the indices, any other new key goes last
Put(acc, key, val) ==
    IF \E i \in 1..Len(acc) : acc[i].key = key
    THEN [i \in 1..Len(acc) |-> IF acc[i].key = key THEN P(key, val) ELSE acc[i]]
    ELSE IF IsIndexKey(key)
         THEN LET before == Cardinality({ i \in 1..Len(acc) :
                                 /\ IsIndexKey(acc[i].key)
                                 /\ DigitsVal(acc[i].key) < DigitsVal(key) })
              IN  SubSeq(acc, 1, before) \o <<P(key, val)>>
                      \o SubSeq(acc, before + 1, Len(acc))
         ELSE Append(acc, P(key, val))

\* Object.assign(acc, src) on property lists
RECURSIVE Assign(_, _)
Assign(acc, src) ==
    IF src = <<>> THEN acc
    ELSE Assign(Put(acc, Head(src).key, Head(src).val), Tail(src))

Str_length == <<"l", "e", "n", "g", "t", "h">>

\* obj[key]: an own property, the length and the characters of a string,
\* the length of an array; undefined for anything else
Get(obj, key) ==
    CASE obj.k \in {"object", "array"} /\ (\E i \in 1..Len(obj.m) : obj.m[i].key = key) ->
             obj.m[CHOOSE i \in 1..Len(obj.m) : obj.m[i].key = key].val
      [] obj.k = "array" /\ key = Str_length -> JNum(Len(obj.m))
      [] obj.k = "string" /\ key = Str_length -> JNum(Len(obj.s))
      [] obj.k = "string" /\ IsIndexKey(key) /\ DigitsVal(key) < Len(obj.s) ->
             JStr(<<obj.s[DigitsVal(key) + 1]>>)
      [] OTHER -> JUndefined

\* the printable characters in UTF-16 order
CodeUnits ==
    <<" ", "!", "\"", "#", "$", "%", "&", "'", "(", ")", "*", "+", ",", "-",
      ".", "/", "0", "1", "2", "3", "4", "5", "6", "7", "8", "9", ":", ";",
      "<", "=", ">", "?", "@", "A", "B", "C", "D", "E", "F", "G", "H", "I",
      "J", "K", "L", "M", "N", "O", "P", "Q", "R", "S", "T", "U", "V", "W",
      "X", "Y", "Z", "[", "\\", "]", "^", "_", "a", "b", "c", "d", "e", "f",
      "g", "h", "i", "j", "k", "l", "m", "n", "o", "p", "q", "r", "s", "t",
      "u", "v", "w", "x", "y", "z", "{", "|", "}", "~">>

\* the place of each character in that order
CharCodes ==
    [c \in { CodeUnits[i] : i \in 1..Len(CodeUnits) } |->
        CHOOSE i \in 1..Len(CodeUnits) : CodeUnits[i] = c]

CharCode(c) == CharCodes[c]

\* a < b as Array.prototype.sort compares strings
RECURSIVE StrLess(_, _)
StrLess(a, b) ==
    IF b = <<>> THEN FALSE
    ELSE IF a = <<>> THEN TRUE
    ELSE IF Head(a) = Head(b) THEN StrLess(Tail(a), Tail(b))
    ELSE CharCode(Head(a)) < CharCode(Head(b))

\* Array.from(set).sort()
RECURSIVE SortSet(_)
SortSet(S) ==
    IF S = {} THEN <<>>
    ELSE LET least == CHOOSE x \in S : \A y \in S \ {x} : StrLess(x, y)
         IN  <<least>> \o SortSet(S \ {least})

\* s.toLowerCase() over the letters of the inputs
LowerChar(c) ==
    CASE c = "A" -> "a"
      [] c = "B" -> "b"
      [] c = "O" -> "o"
      [] c = "X" -> "x"
      [] OTHER -> c

toLowerCase(s) == [i \in 1..Len(s) |-> LowerChar(s[i])]

EndsWith(s, p) == Len(s) >= Len(p) /\ SubSeq(s, Len(s) - Len(p) + 1, Len(s)) = p

\* path.split('.')
RECURSIVE Split(_, _)
Split(s, sep) ==
    LET at == IndexFrom(s, <<sep>>, 1)
    IN  IF at = 0 THEN <<s>>
        ELSE <<SubSeq(s, 1, at - 1)>> \o Split(SubSeq(s, at + 1, Len(s)), sep)

\* parts.join(sep)
RECURSIVE Join(_, _)
Join(parts, sep) ==
    IF parts = <<>> THEN <<>>
    ELSE IF Len(parts) = 1 THEN parts[1]
    ELSE parts[1] \o sep \o Join(Tail(parts), sep)

Str_objectObject ==
    <<"[", "o", "b", "j", "e", "c", "t", " ", "O", "b", "j", "e", "c", "t", "]">>

\* String(v)
RECURSIVE StringOf(_)
StringOf(v) ==
    CASE v.k = "undefined" -> <<"u", "n", "d", "e", "f", "i", "n", "e", "d">>
      [] v.k = "null"      -> <<"n", "u", "l", "l">>
      [] v.k = "boolean"   -> IF v.n = 1 THEN <<"t", "r", "u", "e">>
                              ELSE <<"f", "a", "l", "s", "e">>
      [] v.k = "number"    -> NatToStr(v.n)
      [] v.k = "string"    -> v.s
      [] v.k = "object"    -> Str_objectObject
      [] v.k = "array"     ->
             Join([i \in 1..Len(v.m) |->
                      IF v.m[i].val.k \in {"null", "undefined"} THEN <<>>
                      ELSE StringOf(v.m[i].val)], <<",">>)

NaN == [nan |-> TRUE, n |-> 0]

Num(n) == [nan |-> FALSE, n |-> n]

\* Number(s) of a string made of the characters of the inputs: the empty
\* string is 0, digits are their number, anything else is NaN
StringToNumber(s) ==
    IF s = <<>> THEN Num(0)
    ELSE IF \A i \in 1..Len(s) : IsDigit(s[i]) THEN Num(DigitsVal(s))
    ELSE NaN

\* Number(v)
NumberOf(v) ==
    CASE v.k = "undefined" -> NaN
      [] v.k = "null"      -> Num(0)
      [] v.k \in {"boolean", "number"} -> Num(v.n)
      [] v.k = "string"    -> StringToNumber(v.s)
      [] v.k = "object"    -> NaN
      [] v.k = "array"     -> StringToNumber(StringOf(v))

\* new RegExp(p, 'i') throws: over the patterns of the inputs (literals, ".",
\* a leading "^", a trailing "$", an opening or closing parenthesis) a
\* pattern is malformed exactly when its parentheses do not pair
Malformed(p) ==
    \/ Cardinality({ i \in 1..Len(p) : p[i] = "(" })
          # Cardinality({ i \in 1..Len(p) : p[i] = ")" })
    \/ \E i \in 1..Len(p) :
          /\ p[i] = ")"
          /\ Cardinality({ j \in 1..i : p[j] = ")" })
                > Cardinality({ j \in 1..i : p[j] = "(" })

\* new RegExp(p, 'i').test(s) for a well-formed pattern without groups
RegExpTest(p, s) ==
    LET atStart == p # <<>> /\ p[1] = "^"
        p1      == IF atStart THEN Tail(p) ELSE p
        atEnd   == p1 # <<>> /\ p1[Len(p1)] = "$"
        body    == IF atEnd THEN SubSeq(p1, 1, Len(p1) - 1) ELSE p1
    IN  \E i \in 1..(Len(s) + 1) :
           /\ atStart => i = 1
           /\ i + Len(body) - 1 <= Len(s)
           /\ atEnd => i + Len(body) - 1 = Len(s)
           /\ \A j \in 1..Len(body) :
                 body[j] = "." \/ LowerChar(body[j]) = LowerChar(s[i + j - 1])

----------------------------------------------------------------------------
(* JSON query engine: flatten, schema discovery, filter *)

\* one step of the reduce that inlines nested objects at the top level only
FlattenStep_TopLevelOnly(acc, pre, k, v, flat) ==
    IF IsPlainObject(v) /\ pre = <<>> THEN Assign(acc, flat.m)
    ELSE Put(acc, pre \o k, v)

\* JsonOps.tsx 146-150: one step of the reduce; flat is flatten(v, pre + k)
FlattenStep(acc, pre, k, v, flat) ==
    IF IsPlainObject(v) THEN Assign(acc, flat.m)
    ELSE Put(acc, pre \o k, v)

RECURSIVE flatten(_, _)
RECURSIVE FlattenReduce(_, _, _, _)

\* JsonOps.tsx 141-153
flatten(obj, prefix) ==
    IF ~Truthy(obj) \/ ~TypeofObject(obj) THEN obj
    ELSE JObj(FlattenReduce(obj, prefix, 1, <<>>))

\* Object.keys(obj).reduce(..., {})
FlattenReduce(obj, prefix, i, acc) ==
    IF i > Len(obj.m) THEN acc
    ELSE LET k   == obj.m[i].key
             v   == obj.m[i].val
             pre == IF Len(prefix) > 0 THEN prefix \o <<".">> ELSE <<>>
         IN  FlattenReduce(obj, prefix, i + 1,
                           FlattenStep(acc, pre, k, v, flatten(v, pre \o k)))

\* the flatten of the quick operation that leaves the rows of an array as they are
FlattenData_RowsKept(data) ==
    IF data.k = "array" THEN data
    ELSE flatten(data, <<>>)

\* JsonOps.tsx 154: Array.isArray(data) ? data.map(i => flatten(i)) : flatten(data)
FlattenData(data) ==
    IF data.k = "array"
    THEN JArr([i \in 1..Len(data.m) |-> flatten(data.m[i].val, <<>>)])
    ELSE flatten(data, <<>>)

FlattenCode == <<"data.map(item => flatten(item))">>

Str_value == <<"v", "a", "l", "u", "e">>

RECURSIVE flattenObject(_, _)
RECURSIVE FlattenObjectReduce(_, _, _, _)

\* DataTable.tsx 26-39
flattenObject(obj, prefix) ==
    IF obj.k \in {"null", "undefined"} THEN JObj(<<P(Str_value, obj)>>)
    ELSE IF ~TypeofObject(obj) THEN JObj(<<P(Str_value, obj)>>)
    ELSE JObj(FlattenObjectReduce(obj, prefix, 1, <<>>))

FlattenObjectReduce(obj, prefix, i, acc) ==
    IF i > Len(obj.m) THEN acc
    ELSE LET k   == obj.m[i].key
             v   == obj.m[i].val
             pre == IF Len(prefix) > 0 THEN prefix \o <<".">> ELSE <<>>
         IN  FlattenObjectReduce(obj, prefix, i + 1,
                 IF IsPlainObject(v) THEN Assign(acc, flattenObject(v, pre \o k).m)
                 ELSE Put(acc, pre \o k, v))

\* DataTable.tsx 41-44
FlattenedData(data) ==
    IF data.k # "array" THEN <<>>
    ELSE [i \in 1..Len(data.m) |->
             IF TypeofObject(data.m[i].val) THEN flattenObject(data.m[i].val, <<>>)
             ELSE JObj(<<P(Str_value, data.m[i].val)>>)]

SampleSize == 50       \* data.slice(0, 50)
WidthLimit == 10       \* Object.keys(obj[k]).length < 10
DepthLimit == 3        \* path.split('.').length < 3

\* JsonOps.tsx 36: the condition of the recursive call
Descends(v, path) ==
    /\ Truthy(v)
    /\ IsPlainObject(v)
    /\ Len(v.m) < WidthLimit
    /\ Len(Split(path, ".")) < DepthLimit

\* JsonOps.tsx 30-40: the paths one call adds to fieldSet
RECURSIVE extractPaths(_, _)
extractPaths(obj, prefix) ==
    IF ~Truthy(obj) \/ ~IsPlainObject(obj) THEN {}
    ELSE UNION { LET k    == obj.m[i].key
                     v    == obj.m[i].val
                     path == IF prefix # <<>> THEN prefix \o <<".">> \o k ELSE k
                 IN  {path} \cup (IF Descends(v, path) THEN extractPaths(v, path) ELSE {})
                 : i \in 1..Len(obj.m) }

\* JsonOps.tsx 26: Array.isArray(data) ? data.slice(0, 50) : [data]
SampledItems(data) ==
    IF data.k = "array" THEN SubSeq(Items(data), 1, Min(Len(data.m), SampleSize))
    ELSE <<data>>

\* JsonOps.tsx 24-43
DiscoverFields(data) ==
    IF ~Truthy(data) THEN <<>>
    ELSE LET items == SampledItems(data)
         IN  SortSet(UNION { extractPaths(items[i], <<>>) : i \in 1..Len(items) })

\* JsonOps.tsx 66-68: path.split('.').reduce((prev, curr) => prev?.[curr], obj)
RECURSIVE Walk(_, _)
Walk(prev, segs) ==
    IF segs = <<>> THEN prev
    ELSE Walk(IF prev.k \in {"null", "undefined"} THEN JUndefined
              ELSE Get(prev, Head(segs)),
              Tail(segs))

getValueByPath(obj, path) == Walk(obj, Split(path, "."))

\* the operators the select offers (JsonOps.tsx 258-266)
Operators ==
    {"contains", "equals", "startsWith", "endsWith", "gt", "lt", "regex",
     "isEmpty", "isNotEmpty"}

\* the test of one criterion where a malformed pattern matches every row
EvalCriterion_MalformedMatches(c, item) ==
    IF c.field = <<>> /\ c.op # "search" THEN TRUE
    ELSE LET val       == getValueByPath(item, c.field)
             itemStr   == toLowerCase(IF val.k \in {"null", "undefined"} THEN <<>>
                                      ELSE StringOf(val))
             targetStr == toLowerCase(c.value)
             isBlank   == val.k \in {"null", "undefined"} \/ val = JStr(<<>>)
         IN  CASE c.op = "equals"     -> StringOf(val) = c.value
               [] c.op = "contains"   -> Includes(itemStr, targetStr)
               [] c.op = "gt"         ->
                      /\ ~NumberOf(val).nan /\ ~StringToNumber(c.value).nan
                      /\ NumberOf(val).n > StringToNumber(c.value).n
               [] c.op = "lt"         ->
                      /\ ~NumberOf(val).nan /\ ~StringToNumber(c.value).nan
                      /\ NumberOf(val).n < StringToNumber(c.value).n
               [] c.op = "startsWith" -> StartsWith(itemStr, targetStr)
               [] c.op = "endsWith"   -> EndsWith(itemStr, targetStr)
               [] c.op = "regex"      ->
                      IF Malformed(c.value) THEN TRUE
                      ELSE RegExpTest(c.value, StringOf(val))
               [] c.op = "isEmpty"    -> isBlank
               [] c.op = "isNotEmpty" -> ~isBlank
               [] OTHER -> TRUE

\* JsonOps.tsx 72-91: the result of one criterion on one item
EvalCriterion(c, item) ==
    IF c.field = <<>> /\ c.op # "search" THEN TRUE
    ELSE LET val       == getValueByPath(item, c.field)
             itemStr   == toLowerCase(IF val.k \in {"null", "undefined"} THEN <<>>
                                      ELSE StringOf(val))
             targetStr == toLowerCase(c.value)
             isBlank   == val.k \in {"null", "undefined"} \/ val = JStr(<<>>)
         IN  CASE c.op = "equals"     -> StringOf(val) = c.value
               [] c.op = "contains"   -> Includes(itemStr, targetStr)
               [] c.op = "gt"         ->
                      /\ ~NumberOf(val).nan /\ ~StringToNumber(c.value).nan
                      /\ NumberOf(val).n > StringToNumber(c.value).n
               [] c.op = "lt"         ->
                      /\ ~NumberOf(val).nan /\ ~StringToNumber(c.value).nan
                      /\ NumberOf(val).n < StringToNumber(c.value).n
               [] c.op = "startsWith" -> StartsWith(itemStr, targetStr)
               [] c.op = "endsWith"   -> EndsWith(itemStr, targetStr)
               [] c.op = "regex"      ->
                      IF Malformed(c.value) THEN FALSE
                      ELSE RegExpTest(c.value, StringOf(val))
               [] c.op = "isEmpty"    -> isBlank
               [] c.op = "isNotEmpty" -> ~isBlank
               [] OTHER -> TRUE

\* the row predicate without the early return for an empty criteria list
filterFn_NoEmptyGuard(item, crit, match) ==
    LET results == [i \in 1..Len(crit) |-> EvalCriterion(crit[i], item)]
    IN  IF match = "AND" THEN \A i \in 1..Len(results) : results[i] = TRUE
        ELSE \E i \in 1..Len(results) : results[i] = TRUE

\* JsonOps.tsx 70-99
filterFn(item, crit, match) ==
    LET results == [i \in 1..Len(crit) |-> EvalCriterion(crit[i], item)]
    IN  IF Len(crit) = 0 THEN TRUE
        ELSE IF match = "AND" THEN \A i \in 1..Len(results) : results[i] = TRUE
        ELSE \E i \in 1..Len(results) : results[i] = TRUE

\* the indices of the rows data.filter(filterFn) keeps
Kept(data, crit, match) ==
    { i \in 1..Len(data.m) : filterFn(data.m[i].val, crit, match) }

\* JsonOps.tsx 101: data.filter(filterFn)
RECURSIVE KeptRows(_, _, _, _)
KeptRows(data, crit, match, i) ==
    IF i > Len(data.m) THEN <<>>
    ELSE (IF i \in Kept(data, crit, match) THEN <<data.m[i].val>> ELSE <<>>)
             \o KeptRows(data, crit, match, i + 1)

\* JsonOps.tsx 107-108: item['a']['b'] for the field a.b
ItemPath(field) ==
    <<"item['">> \o Join(Split(field, "."), <<"']['">>) \o <<"']">>

\* JsonOps.tsx 105-120: the snippet of one criterion
Snippet(c) ==
    LET path == ItemPath(c.field)
    IN  CASE c.op = "equals" ->
                 <<"String(">> \o path \o <<") === '">> \o c.value \o <<"'">>
          [] c.op = "contains" ->
                 <<"String(">> \o path \o <<" || '').toLowerCase().includes('">>
                     \o toLowerCase(c.value) \o <<"')">>
          [] c.op = "gt" -> <<"Number(">> \o path \o <<") > ">> \o c.value
          [] c.op = "lt" -> <<"Number(">> \o path \o <<") < ">> \o c.value
          [] c.op = "startsWith" ->
                 <<"String(">> \o path \o <<" || '').toLowerCase().startsWith('">>
                     \o toLowerCase(c.value) \o <<"')">>
          [] c.op = "endsWith" ->
                 <<"String(">> \o path \o <<" || '').toLowerCase().endsWith('">>
                     \o toLowerCase(c.value) \o <<"')">>
          [] c.op = "regex" ->
                 <<"new RegExp('">> \o c.value \o <<"', 'i').test(String(">> \o path
                     \o <<"))">>
          [] c.op = "isEmpty" ->
                 <<"(">> \o path \o <<" === null || ">> \o path \o <<" === undefined || ">>
                     \o path \o <<" === '')">>
          [] c.op = "isNotEmpty" ->
                 <<"(">> \o path \o <<" !== null && ">> \o path \o <<" !== undefined && ">>
                     \o path \o <<" !== '')">>
          [] OTHER -> <<>>

\* JsonOps.tsx 104-123: data.filter(item => ...)
FilterCode(crit, match) ==
    <<"data.filter(item => ">>
        \o Join([i \in 1..Len(crit) |-> Snippet(crit[i])],
                IF match = "AND" THEN <<" && ">> ELSE <<" || ">>)
        \o <<")">>

----------------------------------------------------------------------------
(* JSON query engine: inputs *)

Key_a  == <<"a">>
Key_b  == <<"b">>
Key_ab == <<"a", ".", "b">>

Letters == <<"a", "b", "c", "d", "e", "f", "g", "h", "i", "j", "k">>

\* an object with n own properties
WideObject(n) == JObj([i \in 1..n |-> P(<<Letters[i]>>, JNum(i))])

\* the values a property of a response object holds
NestedValues ==
    { JNum(1), JNull, JObj(<<>>),
      JArr(<<JObj(<<P(Key_a, JNum(1))>>)>>),
      JObj(<<P(Key_b, JNum(2))>>),
      JObj(<<P(Key_b, JObj(<<P(Key_a, JNum(3))>>))>>),
      JObj(<<P(Key_a, JObj(<<P(Key_b, JObj(<<P(Key_a, JNum(4))>>))>>))>>),
      WideObject(WidthLimit - 1),
      WideObject(WidthLimit) }

DocKeys == {Key_a, Key_b, Key_ab}

\* the response objects: up to MaxKeys distinct keys
Docs ==
    UNION { { JObj(f) : f \in { g \in [1..n -> [key : DocKeys, val : NestedValues]] :
                                  \A i, j \in 1..n : i # j => g[i].key # g[j].key } }
            : n \in 0..MaxKeys }

\* the rows of a response array
Rows ==
    { JObj(<<P(Key_a, JNum(1))>>),
      JObj(<<P(Key_a, JStr(<<"X", "1">>))>>),
      JObj(<<P(Key_a, JObj(<<P(Key_b, JNum(2))>>))>>),
      JObj(<<P(Key_b, JNull)>>),
      JArr(<<JObj(<<P(Key_a, JNum(1))>>)>>),
      JNum(0) }

RowArrays == UNION { { JArr(f) : f \in [1..n -> Rows] } : n \in 0..MaxRows }

\* the rows the advanced filter is run on
FilterRows ==
    { JObj(<<P(Key_a, JNum(1))>>),
      JObj(<<P(Key_a, JStr(<<"X", "1">>))>>),
      JObj(<<P(Key_a, JObj(<<P(Key_b, JNum(2))>>))>>) }

FilterArrays == UNION { { JArr(f) : f \in [1..n -> FilterRows] } : n \in 0..MaxRows }

\* a response body: an object, an array of rows, a text, nothing
JsonInputs == Docs \cup RowArrays \cup {JStr(<<"x">>), JNull}

Criterion(field, op, value) == [field |-> field, op |-> op, value |-> value]

\* the criteria of the advanced filter: a field of the select (or none
\* yet), an operator of the select, a typed value
CriteriaPool ==
    <<Criterion(Key_a, "equals", <<"1">>),
     Criterion(Key_a, "contains", <<"x">>),
     Criterion(Key_a, "gt", <<"0">>),
     Criterion(Key_a, "lt", <<"x">>),
     Criterion(Key_a, "startsWith", <<"X">>),
     Criterion(Key_a, "endsWith", <<"1">>),
     Criterion(Key_a, "regex", <<"(">>),
     Criterion(Key_a, "regex", <<"^", "x", ".", "$">>),
     Criterion(Key_ab, "isEmpty", <<>>),
     Criterion(Key_ab, "isNotEmpty", <<>>),
     Criterion(<<>>, "contains", <<>>),
     Criterion(<<>>, "regex", <<"(">>) >>

\* the criteria lists: up to MaxCriteria different criteria, in the order of
\* the pool
CriteriaLists ==
    UNION { { [i \in 1..n |-> CriteriaPool[f[i]]] :
                f \in { g \in [1..n -> 1..Len(CriteriaPool)] :
                          \A a, b \in 1..n : a < b => g[a] < g[b] } }
            : n \in 0..MaxCriteria }

JsonIdle ==
    /\ processedData = JNull
    /\ currentActionCode = <<>>
    /\ criteria = <<>>
    /\ matchType = "AND"
    /\ availableFields = <<>>
    /\ flattenedData = <<>>

----------------------------------------------------------------------------
(* Import of a pasted command (ImportModal) *)

IsSpace(c) == c \in {" ", "\n", "\t"}

IsQuote(c) == c \in {"'", "\""}

IsUpper(c) ==
    c \in {"A", "B", "C", "D", "E", "F", "G", "H", "I", "J", "K", "L", "M", "N", "O",
           "P", "Q", "R", "S", "T", "U", "V", "W", "X", "Y", "Z"}

\* [^\s'"]
IsUrlChar(c) == ~IsSpace(c) /\ ~IsQuote(c)

\* [^"']
IsNotQuote(c) == ~IsQuote(c)

\* the end of the longest run of characters from index i that pass Test
\* (i - 1 when there is none): a greedy class+ or class*
RunEnd(s, i, Test(_)) ==
    LET ends == { j \in (i - 1)..Len(s) : \A k \in i..j : Test(s[k]) }
    IN  CHOOSE j \in ends : \A k \in ends : k <= j

\* s.trim()
Trim(s) ==
    LET keep == { i \in 1..Len(s) : ~IsSpace(s[i]) }
    IN  IF keep = {} THEN <<>>
        ELSE SubSeq(s, CHOOSE i \in keep : \A j \in keep : i <= j,
                       CHOOSE i \in keep : \A j \in keep : j <= i)

\* a literal word at index i
AtWord(s, i, w) == i + Len(w) - 1 <= Len(s) /\ SubSeq(s, i, i + Len(w) - 1) = w

\* the least element of a non-empty set of positions
Least(S) == CHOOSE i \in S : \A j \in S : i <= j

Scheme_http ==
    <<"h", "t", "t", "p", ":", "/", "/">>

Scheme_https ==
    <<"h", "t", "t", "p", "s", ":", "/", "/">>

Flag_X ==
    <<"-", "X">>

Flag_request ==
    <<"-", "-", "r", "e", "q", "u", "e", "s", "t">>

Flag_H ==
    <<"-", "H">>

Flag_header ==
    <<"-", "-", "h", "e", "a", "d", "e", "r">>

Flag_d ==
    <<"-", "d">>

Flag_data ==
    <<"-", "-", "d", "a", "t", "a">>

Flag_data_raw ==
    <<"-", "-", "d", "a", "t", "a", "-", "r", "a", "w">>

Flag_data_binary ==
    <<"-", "-", "d", "a", "t", "a", "-", "b", "i", "n", "a", "r", "y">>

Str_curl ==
    <<"c", "u", "r", "l">>

Str_POST ==
    <<"P", "O", "S", "T">>

Str_GET ==
    <<"G", "E", "T">>

Str_Envelope ==
    <<"E", "n", "v", "e", "l", "o", "p", "e">>

Str_soapNs ==
    <<"h", "t", "t", "p", ":", "/", "/", "s", "c", "h", "e", "m", "a", "s",
      ".", "x", "m", "l", "s", "o", "a", "p", ".", "o", "r", "g", "/", "s",
      "o", "a", "p", "/", "e", "n", "v", "e", "l", "o", "p", "e", "/">>

\* the position after (?:flag|flag|...)\s+ matched at index i, 0 when it
\* does not match there
AfterFlag(s, i, flags) ==
    LET hits == { f \in flags :
                    /\ AtWord(s, i, f)
                    /\ i + Len(f) <= Len(s)
                    /\ IsSpace(s[i + Len(f)]) }
    IN  IF hits = {} THEN 0
        ELSE LET f == CHOOSE f \in hits : TRUE
             IN  RunEnd(s, i + Len(f), IsSpace) + 1

\* part_001 27: cleanStr.match(/(?:'|")?(https?:\/\/[^\s'"]+)(?:'|")?/), group 1
UrlMatch(s) ==
    LET at(i) == { p \in {Scheme_http, Scheme_https} :
                     /\ AtWord(s, i, p)
                     /\ i + Len(p) <= Len(s)
                     /\ IsUrlChar(s[i + Len(p)]) }
        starts == { i \in 1..Len(s) : at(i) # {} }
    IN  IF starts = {} THEN [found |-> FALSE, text |-> <<>>]
        ELSE LET i == Least(starts)
                 p == CHOOSE p \in at(i) : TRUE
             IN  [found |-> TRUE,
                  text  |-> SubSeq(s, i, RunEnd(s, i + Len(p), IsUrlChar))]

\* part_001 31: cleanStr.match(/(?:-X|--request)\s+([A-Z]+)/), group 1
MethodMatch(s) ==
    LET arg(i) == AfterFlag(s, i, {Flag_X, Flag_request})
        starts == { i \in 1..Len(s) :
                      arg(i) # 0 /\ arg(i) <= Len(s) /\ IsUpper(s[arg(i)]) }
    IN  IF starts = {} THEN [found |-> FALSE, text |-> <<>>]
        ELSE LET j == arg(Least(starts))
             IN  [found |-> TRUE, text |-> SubSeq(s, j, RunEnd(s, j, IsUpper))]

\* part_001 35-38: the successive matches of
\* /(?:-H|--header)\s+["']([^"']+)["']/g from index from, group 1 of each
RECURSIVE HeaderMatches(_, _)
HeaderMatches(s, from) ==
    LET arg(i)  == AfterFlag(s, i, {Flag_H, Flag_header})
        last(i) == RunEnd(s, arg(i) + 1, IsNotQuote)
        starts  == { i \in from..Len(s) :
                       /\ arg(i) # 0 /\ arg(i) <= Len(s) /\ IsQuote(s[arg(i)])
                       /\ last(i) > arg(i)
                       /\ last(i) < Len(s) }
    IN  IF starts = {} THEN <<>>
        ELSE LET i == Least(starts)
             IN  <<SubSeq(s, arg(i) + 1, last(i))>> \o HeaderMatches(s, last(i) + 2)

\* part_001 39-46: the headers pushed for the matched arguments
RECURSIVE ExtractedHeaders(_)
ExtractedHeaders(matches) ==
    IF matches = <<>> THEN <<>>
    ELSE LET parts == Split(Head(matches), ":")
         IN  (IF Len(parts) >= 2
              THEN <<[key     |-> Trim(parts[1]),
                      value   |-> Trim(Join(Tail(parts), <<":">>)),
                      enabled |-> TRUE]>>
              ELSE <<>>)
                 \o ExtractedHeaders(Tail(matches))

\* part_001 51-52: the first match of
\* /(?:-d|--data|--data-raw|--data-binary)\s+(['"])([\s\S]*?)\1/g, group 2
DataMatch(s) ==
    LET arg(i)   == AfterFlag(s, i, {Flag_d, Flag_data, Flag_data_raw, Flag_data_binary})
        close(i) == IndexFrom(s, <<s[arg(i)]>>, arg(i) + 1)
        starts   == { i \in 1..Len(s) :
                        /\ arg(i) # 0 /\ arg(i) <= Len(s) /\ IsQuote(s[arg(i)])
                        /\ close(i) # 0 }
    IN  IF starts = {} THEN [found |-> FALSE, text |-> <<>>]
        ELSE LET i == Least(starts)
             IN  [found |-> TRUE, text |-> SubSeq(s, arg(i) + 1, close(i) - 1)]

\* a field of a Partial<RequestConfig>
Absent == [present |-> FALSE, value |-> <<>>]

Present(v) == [present |-> TRUE, value |-> v]

\* part_001 15-60
parseCurl(curlString) ==
    LET cleanStr    == Trim(ReplaceAll(curlString, <<"\\", "\n">>, <<" ">>))
        urlMatch    == UrlMatch(cleanStr)
        methodMatch == MethodMatch(cleanStr)
        extracted   == ExtractedHeaders(HeaderMatches(cleanStr, 1))
        dMatch      == DataMatch(cleanStr)
        method      == IF methodMatch.found THEN methodMatch.text ELSE Str_GET
    IN  [url      |-> IF urlMatch.found THEN Present(urlMatch.text) ELSE Absent,
         method   |-> Present(IF dMatch.found /\ method = Str_GET THEN Str_POST ELSE method),
         headers  |-> Present(extracted),
         body     |-> Present(dMatch.text),
         bodyType |-> Present(IF ~dMatch.found THEN "none"
                              ELSE IF StartsWith(dMatch.text, <<"{">>) THEN "json"
                              ELSE "text")]

----------------------------------------------------------------------------
(* JSON text *)

\* the result of reading one JSON value from index i: next is the index
\* after it
ParseFail == [ok |-> FALSE, val |-> JUndefined, next |-> 0]

Parsed(v, next) == [ok |-> TRUE, val |-> v, next |-> next]

\* the index of the first character at or after i that is not white space
SkipWs(s, i) == RunEnd(s, i, IsSpace) + 1

IsStringChar(c) == c # "\"" /\ c # "\\" /\ c # "\n" /\ c # "\t"

\* a string without escapes at index i
ParseString(s, i) ==
    IF i > Len(s) \/ s[i] # "\"" THEN ParseFail
    ELSE LET last == RunEnd(s, i + 1, IsStringChar)
         IN  IF last < Len(s) /\ s[last + 1] = "\""
             THEN Parsed(JStr(SubSeq(s, i + 1, last)), last + 2)
             ELSE ParseFail

\* a non-negative integer at index i
ParseNumber(s, i) ==
    LET last == RunEnd(s, i, IsDigit)
    IN  IF last < i \/ (last > i /\ s[i] = "0") THEN ParseFail
        ELSE Parsed(JNum(DigitsVal(SubSeq(s, i, last))), last + 1)

RECURSIVE ParseValue(_, _)
RECURSIVE ParseMembers(_, _, _)
RECURSIVE ParseElements(_, _, _)

\* JSON.parse: one value at index i (strings without escapes, non-negative
\* integers, the three literals, objects, arrays)
ParseValue(s, i) ==
    IF i > Len(s) THEN ParseFail
    ELSE CASE s[i] = "\"" -> ParseString(s, i)
           [] IsDigit(s[i]) -> ParseNumber(s, i)
           [] AtWord(s, i, <<"n", "u", "l", "l">>) -> Parsed(JNull, i + 4)
           [] AtWord(s, i, <<"t", "r", "u", "e">>) -> Parsed(JBool(TRUE), i + 4)
           [] AtWord(s, i, <<"f", "a", "l", "s", "e">>) -> Parsed(JBool(FALSE), i + 5)
           [] s[i] = "{" ->
                  LET j == SkipWs(s, i + 1)
                  IN  IF j <= Len(s) /\ s[j] = "}" THEN Parsed(JObj(<<>>), j + 1)
                      ELSE ParseMembers(s, j, <<>>)
           [] s[i] = "[" ->
                  LET j == SkipWs(s, i + 1)
                  IN  IF j <= Len(s) /\ s[j] = "]" THEN Parsed(JArr(<<>>), j + 1)
                      ELSE ParseElements(s, j, <<>>)
           [] OTHER -> ParseFail

\* the members of an object from index i, after the ones in acc
ParseMembers(s, i, acc) ==
    LET key   == ParseString(s, i)
        colon == SkipWs(s, key.next)
        value == ParseValue(s, SkipWs(s, colon + 1))
        after == SkipWs(s, value.next)
        put   == Put(acc, key.val.s, value.val)
    IN  IF ~key.ok \/ colon > Len(s) \/ s[colon] # ":" THEN ParseFail
        ELSE IF ~value.ok \/ after > Len(s) THEN ParseFail
        ELSE IF s[after] = "}" THEN Parsed(JObj(put), after + 1)
        ELSE IF s[after] = "," THEN ParseMembers(s, SkipWs(s, after + 1), put)
        ELSE ParseFail

\* the elements of an array from index i, after the ones in acc
ParseElements(s, i, acc) ==
    LET value == ParseValue(s, i)
        after == SkipWs(s, value.next)
    IN  IF ~value.ok \/ after > Len(s) THEN ParseFail
        ELSE IF s[after] = "]" THEN Parsed(JArr(Append(acc, value.val)), after + 1)
        ELSE IF s[after] = "," THEN ParseElements(s, SkipWs(s, after + 1), Append(acc, value.val))
        ELSE ParseFail

\* the value r parsed from text when only white space follows it
WholeText(text, r) ==
    IF r.ok /\ SkipWs(text, r.next) = Len(text) + 1 THEN [ok |-> TRUE, val |-> r.val]
    ELSE [ok |-> FALSE, val |-> JUndefined]

\* JSON.parse(text): the value, or the SyntaxError
JSONparse(text) == WholeText(text, ParseValue(text, SkipWs(text, 1)))

Str_ContentType ==
    <<"C", "o", "n", "t", "e", "n", "t", "-", "T", "y", "p", "e">>

Str_textXml ==
    <<"t", "e", "x", "t", "/", "x", "m", "l", ";", " ", "c", "h", "a", "r",
      "s", "e", "t", "=", "u", "t", "f", "-", "8">>

Str_SOAPAction ==
    <<"S", "O", "A", "P", "A", "c", "t", "i", "o", "n">>

\* part_001 62-76
parseSoap(soapString) ==
    IF Includes(soapString, Str_Envelope) /\ Includes(soapString, Str_soapNs)
    THEN [url      |-> Absent,
          method   |-> Present(Str_POST),
          headers  |-> Present(<<[key |-> Str_ContentType, value |-> Str_textXml,
                                  enabled |-> TRUE],
                                 [key |-> Str_SOAPAction, value |-> <<"\"", "\"">>,
                                  enabled |-> TRUE]>>),
          body     |-> Present(soapString),
          bodyType |-> Present("xml")]
    ELSE [url |-> Absent, method |-> Present(Str_POST), headers |-> Absent,
          body |-> Present(soapString), bodyType |-> Present("xml")]

\* part_001 78-97: the partial config handleImport hands to onImport
ImportedConfig(trimmedInput) ==
    IF StartsWith(toLowerCase(trimmedInput), Str_curl) THEN parseCurl(trimmedInput)
    ELSE IF StartsWith(trimmedInput, <<"<">>) THEN parseSoap(trimmedInput)
    ELSE IF JSONparse(trimmedInput).ok
         THEN [url |-> Absent, method |-> Present(Str_POST), headers |-> Absent,
               body |-> Present(trimmedInput), bodyType |-> Present("json")]
    ELSE [url |-> Absent, method |-> Absent, headers |-> Absent,
          body |-> Present(trimmedInput), bodyType |-> Present("text")]

\* App.tsx 267: setConfig(prev => ({ ...prev, ...c }))
Merged(prev, c) ==
    [f \in DOMAIN prev |-> IF c[f].present THEN c[f].value ELSE prev[f]]

----------------------------------------------------------------------------
(* Import: inputs *)

Url_apiTest ==
    <<"h", "t", "t", "p", "s", ":", "/", "/", "a", "p", "i", ".", "t", "e",
      "s", "t", "/", "x">>

Url_b ==
    <<"h", "t", "t", "p", ":", "/", "/", "b">>

Str_Authorization ==
    <<"A", "u", "t", "h", "o", "r", "i", "z", "a", "t", "i", "o", "n">>

Str_BearerT ==
    <<"B", "e", "a", "r", "e", "r", " ", "t">>

Body_a1 ==
    <<"{", "\"", "a", "\"", ":", "1", "}">>

Body_ab ==
    <<"a", "=", "b">>

Arg_location ==
    <<"-", "-", "l", "o", "c", "a", "t", "i", "o", "n">>

Flag_data_urlencode ==
    <<"-", "-", "d", "a", "t", "a", "-", "u", "r", "l", "e", "n", "c", "o",
      "d", "e">>

Str_PUT ==
    <<"P", "U", "T">>

Str_delete ==
    <<"d", "e", "l", "e", "t", "e">>

Str_Referer ==
    <<"R", "e", "f", "e", "r", "e", "r">>

Text_hello ==
    <<"h", "e", "l", "l", "o">>

Text_soap ==
    <<"<", "s", "o", "a", "p", ":", "E", "n", "v", "e", "l", "o", "p", "e",
      " ", "x", "m", "l", "n", "s", ":", "s", "o", "a", "p", "=", "\"", "h",
      "t", "t", "p", ":", "/", "/", "s", "c", "h", "e", "m", "a", "s", ".",
      "x", "m", "l", "s", "o", "a", "p", ".", "o", "r", "g", "/", "s", "o",
      "a", "p", "/", "e", "n", "v", "e", "l", "o", "p", "e", "/", "\"", "/",
      ">">>

Url_a ==
    <<"h", "t", "t", "p", ":", "/", "/", "a">>

Url_initial ==
    <<"h", "t", "t", "p", "s", ":", "/", "/", "j", "s", "o", "n", "p", "l",
      "a", "c", "e", "h", "o", "l", "d", "e", "r", ".", "t", "y", "p", "i",
      "c", "o", "d", "e", ".", "c", "o", "m", "/", "p", "o", "s", "t", "s">>

Str_applicationJson ==
    <<"a", "p", "p", "l", "i", "c", "a", "t", "i", "o", "n", "/", "j", "s",
      "o", "n">>

\* constants.tsx 4-7
DEFAULT_HEADERS ==
    <<[key |-> Str_ContentType, value |-> Str_applicationJson, enabled |-> TRUE],
      [key |-> <<"A", "c", "c", "e", "p", "t">>, value |-> <<"*", "/", "*">>,
       enabled |-> TRUE]>>

\* constants.tsx 4-17: the fields of INITIAL_REQUEST an import can replace,
\* character by character
InitialRequestFields ==
    [url      |-> Url_initial,
     method   |-> Str_GET,
     headers  |-> DEFAULT_HEADERS,
     body     |-> <<>>,
     bodyType |-> "none"]

\* an argument of a pasted curl command; NoArg when it is left out
NoArg == [given |-> FALSE, flag |-> <<>>, quote |-> "'", value |-> <<>>]

Arg(flag, quote, value) ==
    [given |-> TRUE, flag |-> flag, quote |-> quote, value |-> value]

HeaderArg(flag, quote, key, value) ==
    [flag |-> flag, quote |-> quote, key |-> key, value |-> value]

MethodArgs ==
    {NoArg, Arg(Flag_request, "", Str_POST), Arg(Flag_X, "", Str_PUT),
     Arg(Flag_X, "", Str_delete)}

UrlArgs == {Arg(<<>>, "'", Url_apiTest), Arg(<<>>, "\"", Url_a)}

HeaderArgLists ==
    {<<>>,
     <<HeaderArg(Flag_header, "'", Str_Authorization, Str_BearerT)>>,
     <<HeaderArg(Flag_H, "'", <<"A">>, <<"1">>),
       HeaderArg(Flag_H, "\"", Str_Referer, Url_b)>>}

DataArgs ==
    {NoArg, Arg(Flag_data_raw, "'", Body_a1), Arg(Flag_d, "\"", <<"x">>),
     Arg(Flag_data_urlencode, "'", Body_ab)}

\* the curl commands pasted: the arguments, whether the URL comes before or
\* after the options, whether the lines are continued with a backslash
Commands ==
    [location : BOOLEAN, method : MethodArgs, url : UrlArgs,
     headers : HeaderArgLists, data : DataArgs, urlFirst : BOOLEAN,
     continued : BOOLEAN]

Quoted(quote, text) == IF quote = "" THEN text ELSE <<quote>> \o text \o <<quote>>

RECURSIVE RenderHeaders(_, _)
RenderHeaders(hs, sep) ==
    IF hs = <<>> THEN <<>>
    ELSE sep \o Head(hs).flag \o <<" ">>
             \o Quoted(Head(hs).quote, Head(hs).key \o <<":", " ">> \o Head(hs).value)
             \o RenderHeaders(Tail(hs), sep)

\* the text of a command
Render(cmd) ==
    LET sep      == IF cmd.continued THEN <<" ", "\\", "\n">> ELSE <<" ">>
        arg(a)   == IF a.given
                    THEN sep \o a.flag \o <<" ">> \o Quoted(a.quote, a.value)
                    ELSE <<>>
        url      == <<" ">> \o Quoted(cmd.url.quote, cmd.url.value)
        location == IF cmd.location THEN <<" ">> \o Arg_location ELSE <<>>
        options  == arg(cmd.method) \o RenderHeaders(cmd.headers, sep) \o arg(cmd.data)
    IN  Str_curl \o location
            \o (IF cmd.urlFirst THEN url \o options ELSE options \o url)

\* curl --location --request POST 'https://api.test/x'
\*      --header 'Authorization: Bearer t' --data-raw '{"a":1}'
ScenarioCommand ==
    [location |-> TRUE, method |-> Arg(Flag_request, "", Str_POST),
     url |-> Arg(<<>>, "'", Url_apiTest),
     headers |-> <<HeaderArg(Flag_header, "'", Str_Authorization, Str_BearerT)>>,
     data |-> Arg(Flag_data_raw, "'", Body_a1), urlFirst |-> TRUE,
     continued |-> FALSE]

\* what is pasted into the import dialog
ImportInputs ==
    { Render(cmd) : cmd \in Commands }
        \cup {<<>>, <<" ">>, Text_hello, Body_a1 \o <<"\n">>, Text_soap, <<"<", "x", "/", ">">>}

ImportIdle ==
    /\ input = <<>>
    /\ showImport = FALSE
    /\ requestConfig = InitialRequestFields

----------------------------------------------------------------------------
(* JSON query engine: quick search *)

Str_status ==
    <<"s", "t", "a", "t", "u", "s">>

Str_active ==
    <<"a", "c", "t", "i", "v", "e">>

Str_idle ==
    <<"i", "d", "l", "e">>

Str_id ==
    <<"i", "d">>

Str_owner ==
    <<"o", "w", "n", "e", "r">>

Str_sig ==
    <<"s", "i", "g">>

Str_YQ ==
    <<"Y", "Q", "=", "=">>


\* s.split(delimiter) for a delimiter of one or more characters
RECURSIVE SplitOn(_, _)
SplitOn(s, delimiter) ==
    LET at == IndexFrom(s, delimiter, 1)
    IN  IF at = 0 THEN <<s>>
        ELSE <<SubSeq(s, 1, at - 1)>>
                 \o SplitOn(SubSeq(s, at + Len(delimiter), Len(s)), delimiter)

\* results.filter((v, i, a) => a.indexOf(v) === i) on a list of found
\* objects: an object is the same as another when it is the same reference
RECURSIVE DedupeByRef(_, _)
DedupeByRef(results, seen) ==
    IF results = <<>> THEN <<>>
    ELSE IF Head(results).ref \in seen THEN DedupeByRef(Tail(results), seen)
    ELSE <<Head(results)>> \o DedupeByRef(Tail(results), seen \cup {Head(results).ref})

\* JsonOps.tsx 163-175.  obj is the value, ref its reference: the reference
\* of a property value is the reference of its holder followed by the key
RECURSIVE findByPredicate(_, _, _, _)
RECURSIVE FindInProperties(_, _, _, _, _)
findByPredicate(obj, ref, targetKey, targetValue) ==
    IF ~Truthy(obj) \/ ~TypeofObject(obj) THEN <<>>
    ELSE IF obj.k = "array"
         THEN DedupeByRef(FindInProperties(obj, ref, targetKey, targetValue, 1), {})
    ELSE DedupeByRef(
             (IF StringOf(Get(obj, targetKey)) = targetValue
              THEN <<[ref |-> ref, val |-> obj]>> ELSE <<>>)
                 \o FindInProperties(obj, ref, targetKey, targetValue, 1), {})

\* the concatenation of the results found in the properties from the i-th on
FindInProperties(obj, ref, targetKey, targetValue, i) ==
    IF i > Len(obj.m) THEN <<>>
    ELSE (IF TypeofObject(obj.m[i].val) /\ obj.m[i].val.k # "null"
          THEN findByPredicate(obj.m[i].val, Append(ref, obj.m[i].key),
                               targetKey, targetValue)
          ELSE <<>>)
             \o FindInProperties(obj, ref, targetKey, targetValue, i + 1)

\* findByPredicate(data, ...) on the data shown: the elements of an array
\* shown (or the one value shown) are the objects with the references refs
RECURSIVE FindInShown(_, _, _, _, _)
FindInShown(data, refs, targetKey, targetValue, i) ==
    IF i > Len(data.m) THEN <<>>
    ELSE findByPredicate(data.m[i].val, refs[i], targetKey, targetValue)
             \o FindInShown(data, refs, targetKey, targetValue, i + 1)

QuickSearchResult(data, refs, targetKey, targetValue) ==
    IF ~Truthy(data) \/ ~TypeofObject(data) THEN <<>>
    ELSE IF data.k = "array"
         THEN DedupeByRef(FindInShown(data, refs, targetKey, targetValue, 1), {})
    ELSE findByPredicate(data, refs[1], targetKey, targetValue)

\* JsonOps.tsx 177-181: delimiter, targetKey, v
SearchTerms(key) ==
    LET delimiter == IF Includes(key, <<"=", "=">>) THEN <<"=", "=">> ELSE <<"=">>
        parts     == SplitOn(key, delimiter)
    IN  [targetKey |-> Trim(parts[1]), v |-> Trim(Join(Tail(parts), delimiter))]

\* JsonOps.tsx 183
SearchCode(targetKey, v) ==
    <<"data.filter(item => String(item['">> \o targetKey \o <<"']) === '">> \o v
        \o <<"')">>

\* the references of the elements of a freshly parsed response: every
\* object of it is an object of its own
FreshRefs(data) ==
    IF data.k = "array" THEN [i \in 1..Len(data.m) |-> <<NatToStr(i - 1)>>]
    ELSE <<<<>>>>

\* the rows the quick search is run on
SearchRows ==
    { JObj(<<P(Str_status, JStr(Str_active)), P(Str_id, JNum(1))>>),
      JObj(<<P(Str_status, JStr(Str_idle)), P(Str_id, JNum(2))>>),
      JObj(<<P(Str_id, JNum(1)), P(Str_owner, JObj(<<P(Str_status, JStr(Str_active))>>))>>),
      JObj(<<P(Str_status, JStr(Str_active)),
             P(Str_owner, JObj(<<P(Str_status, JStr(Str_active))>>))>>),
      JObj(<<P(Str_sig, JStr(Str_YQ)), P(Str_status, JArr(<<JStr(Str_active)>>))>>) }

SearchArrays == UNION { { JArr(f) : f \in [1..n -> SearchRows] } : n \in 0..MaxRows }

\* a search of the form key=value
Query(key, value) == [key |-> key, value |-> value]

Queries ==
    {Query(Str_status, Str_active), Query(Str_status, Str_idle), Query(Str_id, <<"1">>),
     Query(Str_sig, Str_YQ)}

Form(q) == q.key \o <<"=">> \o q.value

\* what is typed into the search field
SearchKeys ==
    { Form(q) : q \in Queries }
        \cup {<<>>, Str_status, Str_status \o <<"=", "=">> \o Str_active,
              <<" ">> \o Str_status \o <<" ", "=", " ">> \o Str_idle}

SearchIdle ==
    /\ searchKey = <<>>
    /\ shownRefs = <<<<>>>>

----------------------------------------------------------------------------
(* Tabular projection (DataTable) *)

Str_filters ==
    <<"f", "i", "l", "t", "e", "r", "s">>
Str_sort ==
    <<"s", "o", "r", "t">>
Str_key ==
    <<"k", "e", "y">>
Str_order ==
    <<"o", "r", "d", "e", "r">>
Str_original ==
    <<"o", "r", "i", "g", "i", "n", "a", "l">>
Str_asc ==
    <<"a", "s", "c">>
Str_desc ==
    <<"d", "e", "s", "c">>
Str_true ==
    <<"t", "r", "u", "e">>
Str_false ==
    <<"f", "a", "l", "s", "e">>
Str_nullWord ==
    <<"n", "u", "l", "l">>

\* DataTable.tsx 46-51, headers: the keys of the rows, each once, first seen first
RECURSIVE tableHeaders(_)
tableHeaders(rows) ==
    IF rows = <<>> THEN <<>>
    ELSE LET before == tableHeaders(SubSeq(rows, 1, Len(rows) - 1))
             last   == rows[Len(rows)].m
             fresh  == SelectSeq([i \in 1..Len(last) |-> last[i].key],
                                 LAMBDA k : \A j \in 1..Len(before) : before[j] # k)
         IN  before \o fresh

\* filterVal && filterVal.trim() !== ''
ActiveFilter(filterVal) == filterVal # <<>> /\ Trim(filterVal) # <<>>

\* DataTable.tsx 59-63: the callback of result.filter
RowPasses(row, key, filterVal) ==
    LET rowVal == Get(row, key)
    IN  /\ rowVal.k \notin {"undefined", "null"}
        /\ Includes(toLowerCase(StringOf(rowVal)), toLowerCase(filterVal))

\* DataTable.tsx 56-65: Object.entries(columnFilters).forEach from entry i on
RECURSIVE ApplyFilters(_, _, _)
ApplyFilters(result, filters, i) ==
    IF i > Len(filters) THEN result
    ELSE ApplyFilters(
             IF ActiveFilter(filters[i].val)
             THEN SelectSeq(result, LAMBDA row : RowPasses(row, filters[i].key, filters[i].val))
             ELSE result,
             filters, i + 1)

\* valA === valB of two values held by different rows
StrictEquals(x, y) == x.k \notin {"object", "array"} /\ x = y

\* the primitive the operator < converts an operand to
ToPrimitive(v) == IF v.k \in {"object", "array"} THEN JStr(StringOf(v)) ELSE v

\* x < y: two strings by their code units, anything else as numbers, and
\* false when one of them is NaN
LessThan(x, y) ==
    LET px == ToPrimitive(x)
        py == ToPrimitive(y)
    IN  IF px.k = "string" /\ py.k = "string" THEN StrLess(px.s, py.s)
        ELSE /\ ~NumberOf(px).nan
             /\ ~NumberOf(py).nan
             /\ NumberOf(px).n < NumberOf(py).n

\* DataTable.tsx 67-77: the comparator handed to result.sort
compare(a, b, key, order) ==
    LET valA == Get(a, key)
        valB == Get(b, key)
        aVal == IF valA.k = "string" THEN JStr(toLowerCase(valA.s)) ELSE valA
        bVal == IF valB.k = "string" THEN JStr(toLowerCase(valB.s)) ELSE valB
    IN  IF StrictEquals(valA, valB) THEN 0
        ELSE IF valA.k \in {"null", "undefined"} THEN 1
        ELSE IF valB.k \in {"null", "undefined"} THEN 0 - 1
        ELSE IF LessThan(aVal, bVal) THEN (IF order = "asc" THEN 0 - 1 ELSE 1)
        ELSE (IF order = "asc" THEN 1 ELSE 0 - 1)

\* the answers of the comparator on every pair of rows
Answers(rows, key, order) ==
    [i \in 1..Len(rows) |-> [j \in 1..Len(rows) |-> compare(rows[i], rows[j], key, order)]]

\* the answers c are those of a consistent comparator (ECMAScript,
\* Array.prototype.sort): they are the answers of one total preorder
Consistent(c) ==
    LET n == DOMAIN c
    IN  /\ \A i, j \in n : /\ (c[i][j] < 0) = (c[j][i] > 0)
                           /\ (c[i][j] = 0) = (c[j][i] = 0)
        /\ \A i, j, k \in n :
              c[i][j] <= 0 /\ c[j][k] <= 0 =>
                 /\ c[i][k] <= 0
                 /\ c[i][j] < 0 \/ c[j][k] < 0 => c[i][k] < 0

\* the permutation p is the stable sort under the answers c
StableSorted(c, p) ==
    \A x, y \in DOMAIN c :
       x < y => c[p[x]][p[y]] < 0 \/ (c[p[x]][p[y]] = 0 /\ p[x] < p[y])

\* the pairs <<i, j>> such that an answer lets row i stand before row j
MayPrecede(c) ==
    { pair \in (DOMAIN c) \X (DOMAIN c) :
         c[pair[1]][pair[2]] <= 0 \/ c[pair[2]][pair[1]] >= 0 }

\* the pairs joined by a chain of pairs of R that passes through rows 1..k
RECURSIVE Chains(_, _)
Chains(R, k) ==
    IF k = 0 THEN R
    ELSE LET before == Chains(R, k - 1)
         IN  before \cup { <<x[1], y[2]>> : x \in { u \in before : u[2] = k },
                                            y \in { u \in before : u[1] = k } }

\* the permutation p is an order a comparison sort can infer from the
\* answers: each row is followed by one that a chain of answers puts after it
Inferable(chains, p) ==
    \A x \in 1..(Len(p) - 1) : <<p[x], p[x + 1]>> \in chains

\* result.sort(comparator): the stable sort when the comparator is
\* consistent; otherwise the order is implementation-defined, and is one of
\* the orders a comparison sort can infer
SortOutcomes(rows, key, order) ==
    LET c == Answers(rows, key, order)
        chains == Chains(MayPrecede(c), Len(c))
        perms == IF Consistent(c)
                 THEN { q \in Permutations(1..Len(rows)) : StableSorted(c, q) }
                 ELSE { q \in Permutations(1..Len(rows)) : Inferable(chains, q) }
    IN  { [x \in 1..Len(rows) |-> rows[p[x]]] : p \in perms }

\* DataTable.tsx 53-80, mutated: the filters are applied in server mode too
ProcessedOutcomes_ServerFiltered(m, rows, filters, key, order) ==
    LET result == ApplyFilters(rows, filters, 1)
    IN  IF Truthy(key) /\ m # "server" THEN SortOutcomes(result, key.s, order)
        ELSE {result}

\* DataTable.tsx 53-80: the values the memo processedData can take
ProcessedOutcomes(m, rows, filters, key, order) ==
    IF m = "server" THEN {rows}
    ELSE LET result == ApplyFilters(rows, filters, 1)
         IN  IF Truthy(key) THEN SortOutcomes(result, key.s, order)
             ELSE {result}

\* DataTable.tsx 96-101: Object.fromEntries of the entries with a filter text
RECURSIVE ActiveFilters(_, _)
ActiveFilters(filters, acc) ==
    IF filters = <<>> THEN acc
    ELSE ActiveFilters(Tail(filters),
             IF ActiveFilter(Head(filters).val)
             THEN Put(acc, Head(filters).key, Head(filters).val)
             ELSE acc)

\* the filters as a JavaScript object of strings
FiltersObject(filters) ==
    JObj([i \in 1..Len(filters) |-> P(filters[i].key, JStr(filters[i].val))])

\* { key, order } or null
SortObject(key, order) ==
    IF Truthy(key)
    THEN JObj(<<P(Str_key, key), P(Str_order, JStr(IF order = "asc" THEN Str_asc ELSE Str_desc))>>)
    ELSE JNull

\* JSON.stringify(v, null, gap) of a value without undefined, the current
\* indentation being indent; gap is empty for JSON.stringify(v)
RECURSIVE Stringify(_, _, _)
Stringify(v, gap, indent) ==
    LET inner == indent \o gap
        lead  == IF gap = <<>> THEN <<>> ELSE <<NL>> \o inner
        close == IF gap = <<>> THEN <<>> ELSE <<NL>> \o indent
        colon == IF gap = <<>> THEN <<":">> ELSE <<":", " ">>
        member(i) ==
            lead \o (IF v.k = "object" THEN JSONStringify(v.m[i].key) \o colon ELSE <<>>)
                 \o Stringify(v.m[i].val, gap, inner)
    IN  CASE v.k = "null"    -> Str_nullWord
          [] v.k = "boolean" -> IF v.n = 1 THEN Str_true ELSE Str_false
          [] v.k = "number"  -> NatToStr(v.n)
          [] v.k = "string"  -> JSONStringify(v.s)
          [] v.k = "object" /\ v.m = <<>> -> <<"{", "}">>
          [] v.k = "array" /\ v.m = <<>>  -> <<"[", "]">>
          [] OTHER ->
                 <<IF v.k = "object" THEN "{" ELSE "[">>
                    \o Join([i \in 1..Len(v.m) |-> member(i)], <<",">>)
                    \o close
                    \o <<IF v.k = "object" THEN "}" ELSE "]">>

\* DataTable.tsx 82-109: the code the effect hands to onActionGenerated
RECURSIVE FilterLines(_)
FilterLines(filters) ==
    IF filters = <<>> THEN <<>>
    ELSE (IF ActiveFilter(Head(filters).val)
          THEN <<".filter(item => String(item['">> \o Head(filters).key
                  \o <<"'] || '').toLowerCase().includes('">>
                  \o toLowerCase(Head(filters).val) \o <<"'))">>
          ELSE <<>>)
         \o FilterLines(Tail(filters))

SortLine(key, order) ==
    IF Truthy(key)
    THEN <<".sort((a, b) => a['">> \o key.s \o <<"'] ">>
            \o <<IF order = "asc" THEN "<" ELSE ">">>
            \o <<" b['">> \o key.s \o <<"'] ? -1 : 1)">>
    ELSE <<>>

TableCode(m, filters, key, order) ==
    IF m = "client"
    THEN LET lines == FilterLines(filters) \o SortLine(key, order)
         IN  IF lines # <<>> THEN <<"data">> \o lines ELSE <<>>
    ELSE LET activeFilters == ActiveFilters(filters, <<>>)
         IN  IF Len(activeFilters) > 0 \/ Truthy(key)
             THEN <<"Body = ">>
                     \o Stringify(JObj(<<P(Str_filters, FiltersObject(activeFilters)),
                                        P(Str_sort, SortObject(key, order))>>),
                                  <<>>, <<>>)
             ELSE <<>>

\* { ...v }: the own enumerable properties of v
Spread(v) ==
    CASE v.k \in {"object", "array"} -> v.m
      [] v.k = "string" -> [i \in 1..Len(v.s) |-> P(NatToStr(i - 1), JStr(<<v.s[i]>>))]
      [] OTHER -> <<>>

\* updatedBody without the spread of currentBodyObj
MergedInto_BodyDropped(currentBodyObj, filters, sort) ==
    Stringify(JObj(Put(Put(<<>>, Str_filters, FiltersObject(filters)), Str_sort, sort)),
              <<" ", " ">>, <<>>)

\* App.tsx 660-669: JSON.stringify(updatedBody, null, 2)
MergedInto(currentBodyObj, filters, sort) ==
    Stringify(JObj(Put(Put(Spread(currentBodyObj), Str_filters, FiltersObject(filters)),
                       Str_sort, sort)),
              <<" ", " ">>, <<>>)

\* App.tsx 651-658: currentBodyObj, json being the outcome of JSON.parse(body)
BodyObject(body, json) ==
    IF body # <<>>
    THEN (IF json.ok THEN json.val ELSE JObj(<<P(Str_original, JStr(body))>>))
    ELSE JObj(<<>>)

\* App.tsx 650-671: the body handleServerSideAction stores
MergedBody(body, filters, sort) ==
    MergedInto(BodyObject(body, JSONparse(body)), filters, sort)

\* DataTable.tsx 21-24, mutated: the effect leaves the sort key
ModeEffect_SortKeyKept(st) == [st EXCEPT !.columnFilters = <<>>]

\* DataTable.tsx 21-24: the effect that runs when mode has changed
ModeEffect(st) == [st EXCEPT !.columnFilters = <<>>, !.sortKey = JNull]

(* Tabular projection: inputs *)

Body_q ==
    <<"{", "\"", "q", "\"", ":", "1", "}">>

Body_arr ==
    <<"[", "7", "]">>

\* the request bodies a server-side action finds: none, a JSON object, a
\* JSON array, a text
TableBodies == {BodyEmpty, Body_q, Body_arr, BodyText}

\* the rows of the table: column a holds strings, numbers, null or nothing
TableRows ==
    { JObj(<<P(Key_a, JStr(<<"a">>))>>),
      JObj(<<P(Key_a, JStr(<<"B">>))>>),
      JObj(<<P(Key_a, JNum(1))>>),
      JObj(<<P(Key_a, JNum(2))>>),
      JObj(<<P(Key_a, JNull)>>),
      JObj(<<>>) }

\* the arrays the table is shown for: up to MaxTableRows different rows
TableArrays ==
    UNION { { JArr(f) : f \in { g \in [1..n -> TableRows] :
                                   \A i, j \in 1..n : i # j => g[i] # g[j] } }
            : n \in 0..MaxTableRows }

\* the texts typed into a column filter
FilterTexts == {<<" ">>, <<"B">>}

\* the table as it mounts: DataTable.tsx 15-17, constants.tsx 8-16
TableIdle ==
    /\ mode = "client"
    /\ columnFilters = <<>>
    /\ sortKey = JNull
    /\ sortOrder = "asc"
    /\ bodyType = "none"
    /\ processedRows = <<>>

----------------------------------------------------------------------------
(* Execution driver: state *)

Variants == {"app1", "app2", "ed1", "ed2"}

IsApp == variant \in {"app1", "app2"}

Methods == {"GET", "HEAD", "POST"}
Urls    == {UrlHttp, UrlFtp, UrlBare}
Bodies  == {BodyEmpty, BodyText, BodyVar}

\* constants.tsx 8-16 / Editor.tsx 751-753: the request a fresh install starts with
INITIAL_REQUEST == [url |-> UrlHttp, method |-> "GET", body |-> BodyEmpty]

NoBody     == [present |-> FALSE, text |-> <<>>]
SomeBody(t) == [present |-> TRUE, text |-> t]

NoResponse == [status |-> 0 - 1]

\* a history list persisted by an earlier session: n completed requests,
\* the most recent first (ids below zero, older entries further below)
StoredHistory(n) ==
    [i \in 1..n |-> [id |-> 0 - i, status |-> 200, request |-> INITIAL_REQUEST]]

\* Editor.tsx 72-77
soapEnvelope(body) == <<"<soap:Envelope><soap:Body>">> \o body
                          \o <<"</soap:Body></soap:Envelope>">>

\* the url handed to fetch
FetchUrl(v, env, cfg) ==
    CASE v = "app1" -> interpolate(env, cfg.url)
      [] v = "app2" -> cfg.url
      [] v = "ed1"  -> IF StartsWith(cfg.url, Str_http) THEN cfg.url
                       ELSE Str_https \o cfg.url
      [] v = "ed2"  -> cfg.url

\* FetchBody with the HEAD test left out of every revision
FetchBody_GetOnly(v, env, soap, cfg) ==
    LET text == IF v = "app1" THEN interpolate(env, cfg.body)
                ELSE IF v = "ed1" /\ soap THEN soapEnvelope(cfg.body)
                ELSE cfg.body
    IN  IF cfg.method = "GET" THEN NoBody
        ELSE IF v \in {"app1", "app2"} /\ text = <<>> THEN NoBody
        ELSE SomeBody(text)

\* the body member of the options handed to fetch
FetchBody(v, env, soap, cfg) ==
    CASE v = "app1" ->
            LET interpolatedBody == interpolate(env, cfg.body)
            IN  IF cfg.method # "GET" /\ cfg.method # "HEAD" /\ interpolatedBody # <<>>
                THEN SomeBody(interpolatedBody) ELSE NoBody
      [] v = "app2" ->
            IF cfg.method # "GET" /\ cfg.method # "HEAD" /\ cfg.body # <<>>
            THEN SomeBody(cfg.body) ELSE NoBody
      [] v = "ed1" ->
            LET payload == IF soap THEN soapEnvelope(cfg.body) ELSE cfg.body
            IN  IF cfg.method \in {"GET", "HEAD"} THEN NoBody ELSE SomeBody(payload)
      [] v = "ed2" ->
            IF cfg.method \in {"GET", "HEAD"} THEN NoBody ELSE SomeBody(cfg.body)

\* headersObj: when interpolated, the enabled headers that have a key, as
\* properties of an object
RECURSIVE HeadersObj(_, _, _, _)
HeadersObj(v, env, headers, acc) ==
    IF headers = <<>> THEN acc
    ELSE LET h == Head(headers)
         IN  HeadersObj(v, env, Tail(headers),
                 IF h.enabled /\ h.key # <<>>
                 THEN IF v = "app1"
                      THEN Put(acc, interpolate(env, h.key), interpolate(env, h.value))
                      ELSE Put(acc, h.key, h.value)
                 ELSE acc)

\* the headers member of the options handed to fetch
FetchHeaders(v, env, soap, headers) ==
    LET headersObj == HeadersObj(v, env, headers, <<>>)
    IN  IF v = "ed1" /\ soap
        THEN LET typed == Put(headersObj, Str_ContentType, Str_textXml)
             IN  IF \E i \in 1..Len(typed) :
                       typed[i].key = Str_SOAPAction /\ typed[i].val # <<>>
                 THEN typed
                 ELSE Put(typed, Str_SOAPAction, <<"\"", "\"">>)
        ELSE headersObj

\* the method member of the options handed to fetch
FetchMethod(v, cfg) ==
    IF v = "ed2" /\ cfg.method \in {"GET", "HEAD"} THEN "GET" ELSE cfg.method

\* [item, ...prev].slice(0, 50)
PrependCapped(prev, item) ==
    SubSeq(<<item>> \o prev, 1, Min(Len(prev) + 1, HistoryCap))

\* [mockItem, ...p]
PrependUncapped(prev, item) == <<item>> \o prev

\* setHistory([item, ...history]): the list the handler captured
UpdaterArgument_Captured(current, captured) == captured

\* setHistory(prev => ...): the updater receives the list as it is when the
\* update is applied, not the list the handler captured when it started
UpdaterArgument(current, captured) == current

\* the record a call leaves in the history
HistoryRecord(c, status) ==
    [id |-> c.id, status |-> status, request |-> c.request]

TypeOK ==
    /\ variant \in Variants
    /\ config \in [url : Urls, method : Methods, body : Bodies]
    /\ isSoap \in BOOLEAN
    /\ activeEnv \in Environments
    /\ loading \in BOOLEAN
    /\ nextId \in 0..(MaxRequests + 1)
    /\ \A i \in 1..Len(history) : history[i].status \in {200, 404, 226}
    /\ \A c \in inflight : c.id \in 1..nextId

----------------------------------------------------------------------------
(* Execution driver: the response *)

Str_json ==
    <<"j", "s", "o", "n">>

Str_xml ==
    <<"x", "m", "l">>

Str_text ==
    <<"t", "e", "x", "t">>

Str_textPlain ==
    <<"t", "e", "x", "t", "/", "p", "l", "a", "i", "n">>

Str_image ==
    <<"i", "m", "a", "g", "e", "/">>

Str_pdf ==
    <<"p", "d", "f">>

Str_octetStream ==
    <<"o", "c", "t", "e", "t", "-", "s", "t", "r", "e", "a", "m">>

Str_error ==
    <<"e", "r", "r", "o", "r">>

Str_message ==
    <<"m", "e", "s", "s", "a", "g", "e">>

Str_FailedToFetch ==
    <<"F", "a", "i", "l", "e", "d", " ", "t", "o", " ", "f", "e", "t", "c",
      "h">>

Str_TransformationError ==
    <<"T", "r", "a", "n", "s", "f", "o", "r", "m", "a", "t", "i", "o", "n",
      " ", "E", "r", "r", "o", "r">>

CT_json ==
    <<"a", "p", "p", "l", "i", "c", "a", "t", "i", "o", "n", "/", "j", "s",
      "o", "n", ";", " ", "c", "h", "a", "r", "s", "e", "t", "=", "u", "t",
      "f", "-", "8">>

CT_xml ==
    <<"t", "e", "x", "t", "/", "x", "m", "l">>

CT_png ==
    <<"i", "m", "a", "g", "e", "/", "p", "n", "g">>

Raw_object ==
    <<"{", "\"", "a", "\"", ":", "1", "}">>

Raw_array ==
    <<"[", "1", "]">>

Raw_null ==
    <<"n", "u", "l", "l">>

Raw_broken ==
    <<"{", "\"", "a", "\"", ":">>

Raw_xml ==
    <<"<", "x", "/", ">">>


\* the content-type headers and the bodies of the responses; a response
\* without the header has the content-type ""
ContentTypes == {CT_json, CT_xml, Str_textPlain, CT_png, <<>>}

RawTexts == {Raw_object, Raw_array, Raw_null, Raw_broken, Raw_xml}

Response(contentType, rawText) == [contentType |-> contentType, rawText |-> rawText]

Responses == [contentType : ContentTypes, rawText : RawTexts]

\* the response the calls of Spec and SpecOptions receive
PlainResponse == Response(Str_textPlain, Raw_xml)

\* the transformation scripts: none, the default of constants.tsx 15, one
\* that reads a property of data (a TypeError when data is null), one that
\* throws, one that is not a function body (new Function throws)
Scripts == {"", "return data;", "return data.a;", "throw 1;", "}"}

\* new Function('data', script)(data): the value returned, or raised
Invoke(script, data) ==
    CASE script = "return data;"   -> [raised |-> FALSE, value |-> data]
      [] script = "return data.a;" ->
             IF data.k \in {"null", "undefined"} THEN [raised |-> TRUE, value |-> JUndefined]
             ELSE [raised |-> FALSE, value |-> Get(data, Key_a)]
      [] OTHER                     -> [raised |-> TRUE, value |-> JUndefined]

\* App.tsx 531-539
applyTransformation(data, script) ==
    LET r == Invoke(script, data)
    IN  IF r.raised
        THEN JObj(<<P(Str_error, JStr(Str_TransformationError)),
                    P(Str_message, JStr(Str_message))>>)
        ELSE r.value

\* App.tsx 158-164 / 596-599: finalData
FinalData(v, type, data, script) ==
    IF type = Str_json /\ script # ""
    THEN IF v = "app1"
         THEN LET r == Invoke(script, data) IN IF r.raised THEN data ELSE r.value
         ELSE applyTransformation(data, script)
    ELSE data

\* App.tsx 130-139 / 583-592, Editor.tsx 201-207 / 805-816: data (parsed) and
\* type of the response, json being the outcome of JSON.parse(rawText)
ClassifiedAs(v, contentType, rawText, json) ==
    CASE v \in {"app1", "app2"} ->
             IF Includes(contentType, Str_applicationJson)
             THEN IF json.ok THEN [data |-> json.val, type |-> Str_json]
                  ELSE [data |-> JStr(rawText), type |-> Str_text]
             ELSE IF Includes(contentType, Str_xml)
                  THEN [data |-> JStr(rawText), type |-> Str_xml]
             ELSE [data |-> JStr(rawText), type |-> Str_text]
      [] v = "ed1" ->
             [data |-> IF json.ok THEN json.val ELSE JStr(rawText),
              type |-> IF contentType # <<>> THEN contentType ELSE Str_textPlain]
      [] v = "ed2" ->
             IF \/ Includes(contentType, Str_image)
                \/ Includes(contentType, Str_pdf)
                \/ Includes(contentType, Str_octetStream)
             THEN [data |-> JStr(<<"[Binary Data: ">> \o contentType \o <<"]">>),
                   type |-> contentType]
             ELSE [data |-> IF json.ok THEN json.val ELSE JStr(rawText),
                   type |-> contentType]

\* data and type of the response with the body rawText
Classified(v, contentType, rawText) ==
    ClassifiedAs(v, contentType, rawText, JSONparse(rawText))

\* the data, raw text and type of originalResponse (App) / activeItem (Editor)
NoResponseData == [data |-> JNull, raw |-> <<>>, type |-> <<>>]

\* App.tsx 176-189: errRes
ErrorResponseData ==
    [data |-> JObj(<<P(Str_error, JStr(Str_FailedToFetch))>>),
     raw  |-> Str_FailedToFetch,
     type |-> Str_json]

\* Editor.tsx 784-786: the response of the simulated FTP transfer
FtpResponseData ==
    [data |-> JObj(<<P(Str_message, JStr(<<"FTP file list or retrieve simulated.">>))>>),
     raw  |-> <<>>,
     type |-> Str_textPlain]

\* the render that follows a change of processedData: the useMemo of
\* JsonOps.tsx 24-43 and of DataTable.tsx 41-44
Rendered(data, fields, rows) ==
    /\ fields = DiscoverFields(data)
    /\ rows = FlattenedData(data)

RespIdle ==
    /\ reqHeaders = DEFAULT_HEADERS
    /\ transformationScript = "return data;"
    /\ responseData = NoResponseData

\* setProcessedData(data) and the render that follows
ShowData(data) ==
    /\ processedData' = data
    /\ Rendered(processedData', availableFields', flattenedData')
    /\ shownRefs' = FreshRefs(processedData')

KeepData == UNCHANGED <<processedData, availableFields, flattenedData, shownRefs>>

\* what the execution driver leaves alone in every step
notDriver ==
    <<genVars, importVars, criteria, matchType, searchKey, reqHeaders, transformationScript,
      loadVars, tableVars, uiVars>>

----------------------------------------------------------------------------
(* Persisted documents: the loaders *)

Str_dark ==
    <<"d", "a", "r", "k">>

Str_light ==
    <<"l", "i", "g", "h", "t">>

Stored_dark ==
    <<"\"", "d", "a", "r", "k", "\"">>

Stored_empty_array ==
    <<"[", "]">>


\* localStorage.getItem(key): null, or the text stored
NotStored == [present |-> FALSE, text |-> <<>>]

Stored(text) == [present |-> TRUE, text |-> text]

\* the keys of the documents each revision loads when it is mounted
LoadedKeys(v) ==
    CASE v = "app1" -> {"nova_last_config", "nova_history", "nova_envs", "nova_active_env_id",
                        "nova_collections", "nova_user", "nova_theme"}
      [] v = "app2" -> {"nova_last_config", "nova_history"}
      [] v = "ed1"  -> {"nova_history_v4"}
      [] v = "ed2"  -> {"nova_theme", "nova_history_v5"}

StorageKeys == UNION { LoadedKeys(v) : v \in Variants }

\* the texts found under a key: written by JSON.stringify, written as they
\* are (Editor.tsx 764), cut short, empty
StoredTexts == {Stored_empty_array, Stored_dark, Str_dark, Raw_broken, <<>>}

EmptyStorage == [key \in StorageKeys |-> NotStored]

\* constants.tsx 8-16 as a JSON value
InitialRequestValue ==
    JObj(<<P(<<"u", "r", "l">>, JStr(Url_initial)),
           P(<<"m", "e", "t", "h", "o", "d">>, JStr(Str_GET)),
           P(<<"h", "e", "a", "d", "e", "r", "s">>,
             JArr([i \in 1..Len(DEFAULT_HEADERS) |->
                      JObj(<<P(<<"k", "e", "y">>, JStr(DEFAULT_HEADERS[i].key)),
                             P(Str_value, JStr(DEFAULT_HEADERS[i].value)),
                             P(<<"e", "n", "a", "b", "l", "e", "d">>, JBool(TRUE))>>)])),
           P(<<"b", "o", "d", "y">>, JStr(<<>>)),
           P(<<"b", "o", "d", "y", "T", "y", "p", "e">>, JStr(<<"n", "o", "n", "e">>)),
           P(<<"transformationScript">>,
             JStr(<<"// Write JS to transform \"data\"", "\n",
                    "// Example: return data.slice(0, 5);", "\n", "return data;">>)),
           P(<<"processingMode">>, JStr(<<"c", "l", "i", "e", "n", "t">>))>>)

\* the hardcoded default of a document
DefaultOf(v, key) ==
    CASE key = "nova_last_config" -> InitialRequestValue
      [] key \in {"nova_history", "nova_envs", "nova_collections", "nova_history_v4",
                  "nova_history_v5"} -> JArr(<<>>)
      [] key \in {"nova_active_env_id", "nova_user"} -> JNull
      [] key = "nova_theme" -> IF v = "ed2" THEN JStr(Str_light) ELSE JStr(Str_dark)

\* what a loader leaves: a value, or the exception it raised
Loaded(value) == [raised |-> FALSE, value |-> value]

LoadRaised == [raised |-> TRUE, value |-> JUndefined]

NotLoaded == [raised |-> FALSE, value |-> JUndefined]

\* App.tsx 16-25
loadLocal(s, def) ==
    IF ~s.present THEN Loaded(def)
    ELSE IF JSONparse(s.text).ok THEN Loaded(JSONparse(s.text).val)
    ELSE Loaded(JStr(s.text))

\* App.tsx 481-489: saved ? JSON.parse(saved) : default
loadSaved(s, def) ==
    IF ~s.present \/ s.text = <<>> THEN Loaded(def)
    ELSE IF JSONparse(s.text).ok THEN Loaded(JSONparse(s.text).val)
    ELSE LoadRaised

\* Editor.tsx 155-159: try { JSON.parse(getItem || '[]') } catch { [] }
loadHistoryV4(s) ==
    IF ~s.present \/ s.text = <<>> THEN Loaded(JArr(<<>>))
    ELSE IF JSONparse(s.text).ok THEN Loaded(JSONparse(s.text).val)
    ELSE Loaded(JArr(<<>>))

\* Editor.tsx 756: JSON.parse(getItem || '[]')
loadHistoryV5(s) ==
    IF ~s.present \/ s.text = <<>> THEN Loaded(JArr(<<>>))
    ELSE IF JSONparse(s.text).ok THEN Loaded(JSONparse(s.text).val)
    ELSE LoadRaised

\* Editor.tsx 749: getItem || 'light'
loadTheme(s) ==
    IF ~s.present \/ s.text = <<>> THEN Loaded(JStr(Str_light))
    ELSE Loaded(JStr(s.text))

\* the loader a revision runs for a key
Load(v, key, s) ==
    CASE v = "app1" -> loadLocal(s, DefaultOf(v, key))
      [] v = "app2" -> loadSaved(s, DefaultOf(v, key))
      [] v = "ed1"  -> loadHistoryV4(s)
      [] v = "ed2"  -> IF key = "nova_theme" THEN loadTheme(s) ELSE loadHistoryV5(s)

LoadIdle ==
    /\ localStorage = EmptyStorage
    /\ mounted = "no"
    /\ loadedDocs = [key \in StorageKeys |-> NotLoaded]

(* The request editor, the environments and the profiles: state *)

NullId == 0

NoSend == [active |-> FALSE]

\* constants.tsx 3-16: INITIAL_REQUEST, its headers being the two objects of
\* DEFAULT_HEADERS
HistIdle ==
    /\ headerObjects = DEFAULT_HEADERS
    /\ editorConfig = [url |-> INITIAL_REQUEST.url, method |-> INITIAL_REQUEST.method,
                       body |-> INITIAL_REQUEST.body, headers |-> <<1, 2>>]
    /\ historyItems = <<>>
    /\ sending = NoSend
    /\ editCount = 0

\* App.tsx 46-51 on a fresh install
EnvIdle ==
    /\ environments = <<>>
    /\ activeEnvId = NullId
    /\ showSettings = FALSE
    /\ selectedEnvId = NullId
    /\ nextEnvId = 0

\* App.tsx 47, 53 and AuthModal.tsx 11-14 on a fresh install
AuthIdle ==
    /\ novaUsers = NotStored
    /\ user = JNull
    /\ showAuth = FALSE
    /\ isLogin = TRUE
    /\ error = ""
    /\ authOutcome = "none"

UiIdle == HistIdle /\ EnvIdle /\ AuthIdle

----------------------------------------------------------------------------
(* Execution driver: operations *)

Init ==
    /\ variant \in Variants
    /\ config = INITIAL_REQUEST
    /\ isSoap = FALSE
    /\ activeEnv = NoEnv
    /\ loading = FALSE
    /\ history \in {<<>>, StoredHistory(HistoryCap - 1)}
    /\ originalResponse = NoResponse
    /\ inflight = {}
    /\ nextId = 0
    /\ completed = [id |-> 0, outcome |-> "none"]
    /\ RespIdle
    /\ LoadIdle
    /\ TableIdle
    /\ UiIdle
    /\ GenIdle
    /\ JsonIdle
    /\ ImportIdle
    /\ SearchIdle

\* the url, method and body inputs
SetUrl(u) ==
    /\ config' = [config EXCEPT !.url = u]
    /\ UNCHANGED <<variant, isSoap, activeEnv, loading, history,
                   originalResponse, inflight, nextId, completed>>
    /\ UNCHANGED notExec

SetMethod(m) ==
    /\ config' = [config EXCEPT !.method = m]
    /\ UNCHANGED <<variant, isSoap, activeEnv, loading, history,
                   originalResponse, inflight, nextId, completed>>
    /\ UNCHANGED notExec

SetBody(b) ==
    /\ config' = [config EXCEPT !.body = b]
    /\ UNCHANGED <<variant, isSoap, activeEnv, loading, history,
                   originalResponse, inflight, nextId, completed>>
    /\ UNCHANGED notExec

\* Editor.tsx 340: the SOAP toggle
ToggleSoap ==
    /\ variant = "ed1"
    /\ isSoap' = ~isSoap
    /\ UNCHANGED <<variant, config, activeEnv, loading, history,
                   originalResponse, inflight, nextId, completed>>
    /\ UNCHANGED notExec

\* App.tsx 233-240: the environment select
SelectEnv(e) ==
    /\ variant = "app1"
    /\ activeEnv' = e
    /\ UNCHANGED <<variant, config, isSoap, loading, history,
                   originalResponse, inflight, nextId, completed>>
    /\ UNCHANGED notExec

\* handleSend / executeRequest up to the first await
Send ==
    /\ nextId < MaxRequests
    /\ nextId' = nextId + 1
    /\ loading' = TRUE
    /\ originalResponse' = IF IsApp THEN NoResponse ELSE originalResponse
    /\ LET isFtp == variant = "ed2" /\ StartsWith(config.url, Str_ftp)
           call  == [id      |-> nextId + 1,
                     kind    |-> IF isFtp THEN "ftp" ELSE "fetch",
                     url     |-> FetchUrl(variant, activeEnv, config),
                     method  |-> FetchMethod(variant, config),
                     body    |-> IF isFtp THEN NoBody
                                 ELSE FetchBody(variant, activeEnv, isSoap, config),
                     headers |-> IF isFtp THEN <<>>
                                 ELSE FetchHeaders(variant, activeEnv, isSoap, reqHeaders),
                     env     |-> activeEnv,
                     soap    |-> isSoap,
                     script  |-> transformationScript,
                     request |-> IF variant = "ed1"
                                 THEN [config EXCEPT !.url = FetchUrl(variant, activeEnv, config)]
                                 ELSE config,
                     seen    |-> history]
       IN  inflight' = inflight \cup {call}
    /\ IF IsApp
       THEN /\ ShowData(JNull)
            /\ currentActionCode' = <<>>
            /\ responseData' = NoResponseData
       ELSE /\ KeepData
            /\ UNCHANGED <<currentActionCode, responseData>>
    /\ UNCHANGED <<variant, config, isSoap, activeEnv, history, completed>>
    /\ UNCHANGED notDriver

\* fetch resolved: the rest of the try block, then finally
ResolveAs(c, status, res, parsed) ==
    /\ c \in inflight
    /\ c.kind = "fetch"
    /\ inflight' = inflight \ {c}
    /\ history' = PrependCapped(UpdaterArgument(history, c.seen),
                                HistoryRecord(c, status))
    /\ originalResponse' = [status |-> status]
    /\ responseData' = [data |-> parsed.data, raw |-> res.rawText, type |-> parsed.type]
    /\ IF IsApp
       THEN ShowData(FinalData(variant, parsed.type, parsed.data, c.script))
       ELSE KeepData
    /\ loading' = FALSE
    /\ completed' = [id |-> c.id, outcome |-> "ok"]
    /\ UNCHANGED <<variant, config, isSoap, activeEnv, nextId, currentActionCode>>
    /\ UNCHANGED notDriver

\* the call c resumes after await fetch with the response res
Resolve(c, status, res) ==
    ResolveAs(c, status, res, Classified(variant, res.contentType, res.rawText))

\* the catch block without setOriginalResponse(errRes)
Reject_ResponseKept(c) ==
    /\ c \in inflight
    /\ c.kind = "fetch"
    /\ inflight' = inflight \ {c}
    /\ originalResponse' = originalResponse
    /\ IF IsApp
       THEN /\ responseData' = ErrorResponseData
            /\ ShowData(ErrorResponseData.data)
       ELSE /\ KeepData
            /\ UNCHANGED responseData
    /\ loading' = FALSE
    /\ completed' = [id |-> c.id, outcome |-> "fail"]
    /\ UNCHANGED <<variant, config, isSoap, activeEnv, history, nextId, currentActionCode>>
    /\ UNCHANGED notDriver

\* fetch rejected: the catch block, then finally
Reject(c) ==
    /\ c \in inflight
    /\ c.kind = "fetch"
    /\ inflight' = inflight \ {c}
    /\ originalResponse' = IF IsApp THEN [status |-> 0] ELSE originalResponse
    /\ IF IsApp
       THEN /\ responseData' = ErrorResponseData
            /\ ShowData(ErrorResponseData.data)
       ELSE /\ KeepData
            /\ UNCHANGED responseData
    /\ loading' = FALSE
    /\ completed' = [id |-> c.id, outcome |-> "fail"]
    /\ UNCHANGED <<variant, config, isSoap, activeEnv, history, nextId, currentActionCode>>
    /\ UNCHANGED notDriver

\* Editor.tsx 778-793: the simulated FTP transfer ends
FtpDone(c) ==
    /\ c \in inflight
    /\ c.kind = "ftp"
    /\ inflight' = inflight \ {c}
    /\ history' = PrependUncapped(UpdaterArgument(history, c.seen),
                                  HistoryRecord(c, 226))
    /\ originalResponse' = [status |-> 226]
    /\ responseData' = FtpResponseData
    /\ KeepData
    /\ loading' = FALSE
    /\ completed' = [id |-> c.id, outcome |-> "ftp"]
    /\ UNCHANGED <<variant, config, isSoap, activeEnv, nextId, currentActionCode>>
    /\ UNCHANGED notDriver

\* App.tsx 737 "Clear", Editor.tsx 290 "Wipe"
ClearHistory ==
    /\ variant \in {"app2", "ed1"}
    /\ history # <<>>
    /\ history' = <<>>
    /\ UNCHANGED <<variant, config, isSoap, activeEnv, loading,
                   originalResponse, inflight, nextId, completed>>
    /\ UNCHANGED notExec

\* Spec: calls, completions and the history list; the request varies in its url
Next ==
    \/ \E u \in Urls : SetUrl(u)
    \/ Send
    \/ \E c \in inflight : \E status \in {200, 404} : Resolve(c, status, PlainResponse)
    \/ \E c \in inflight : Reject(c)
    \/ \E c \in inflight : FtpDone(c)
    \/ ClearHistory

Spec == Init /\ [][Next]_vars

\* SpecOptions: what a call hands to fetch, for every request, environment
\* and SOAP setting; the request is the one left by the last edits
InitOptions ==
    /\ variant \in Variants
    /\ config \in [url : Urls, method : Methods, body : Bodies]
    /\ isSoap = FALSE
    /\ activeEnv = NoEnv
    /\ loading = FALSE
    /\ history = <<>>
    /\ originalResponse = NoResponse
    /\ inflight = {}
    /\ nextId = 0
    /\ completed = [id |-> 0, outcome |-> "none"]
    /\ RespIdle
    /\ LoadIdle
    /\ TableIdle
    /\ UiIdle
    /\ GenIdle
    /\ JsonIdle
    /\ ImportIdle
    /\ SearchIdle

NextOptions ==
    \/ ToggleSoap
    \/ \E e \in Environments : SelectEnv(e)
    \/ Send
    \/ \E c \in inflight : \E status \in {200, 404} : Resolve(c, status, PlainResponse)
    \/ \E c \in inflight : Reject(c)
    \/ \E c \in inflight : FtpDone(c)

SpecOptions == InitOptions /\ [][NextOptions]_vars

----------------------------------------------------------------------------
(* Claims on the execution driver *)

\* the call that runs to its end in this step, if any
Finishing == inflight \ inflight'

\* C1: after any sequence of completed requests, on every path (the
\* simulated FTP path included), the history holds at most 50 entries, a
\* request that has just been recorded is at index 0, and the entries behind
\* it are the previous ones in order, so only the oldest can have been dropped.
C1_HistoryCappedNewestFirst ==
    [][ /\ Len(history') <= HistoryCap
        /\ \A c \in Finishing :
              completed'.outcome \in {"ok", "ftp"} =>
                 /\ history'[1].id = c.id
                 /\ \A i \in 2..Len(history') : history'[i] = history[i - 1]
      ]_vars

\* C2: every call that runs to its end puts exactly one record of itself at
\* the head of the history, and the record of a call that failed with a
\* network error has status 0.
C2_EveryCallRecorded ==
    [][ \A c \in Finishing :
           /\ history' # <<>>
           /\ history'[1].id = c.id
           /\ \A i \in 2..Len(history') : history'[i].id # c.id
           /\ completed'.outcome = "fail" => history'[1].status = 0
      ]_vars

\* C3: starting a call never aborts one in flight, and a call that completes
\* successfully puts its record at index 0 in front of every record that was
\* there, whichever call put it there (none is lost to the other's update;
\* only the cap can drop the oldest).
C3_ConcurrentCallsBothRecorded ==
    [][ /\ nextId' # nextId => inflight \subseteq inflight'
        /\ \A c \in Finishing :
              completed'.outcome = "ok" =>
                 /\ history'[1].id = c.id
                 /\ Len(history') = Min(Len(history) + 1, HistoryCap)
                 /\ \A i \in 2..Len(history') : history'[i] = history[i - 1]
      ]_vars

\* two calls of this session overlapped: the one started first completed
\* last, sits at index 0, and the other one's record is right behind it
C3_Witness ==
    /\ Len(history) >= 2
    /\ history[1].id > 0
    /\ history[2].id > history[1].id
    /\ completed = [id |-> history[1].id, outcome |-> "ok"]

\* C4 as stated: a GET or HEAD call hands no body to fetch whatever the
\* configured body is; any other call hands the interpolated configured body
\* when that is non-empty.
C4_BodyIsInterpolatedBody ==
    \A c \in inflight :
        c.kind = "fetch" =>
            LET b == interpolate(c.env, c.request.body)
            IN  /\ c.request.method \in {"GET", "HEAD"} => ~c.body.present
                /\ (c.request.method \notin {"GET", "HEAD"} /\ b # <<>>)
                       => c.body = SomeBody(b)

\* C4 amended: a GET or HEAD call hands no body to fetch whatever the
\* configured body is; any other call hands the interpolated configured body
\* when that is non-empty, wrapped in the SOAP envelope when the SOAP toggle
\* of the editor is on.
C4_BodyOnlyForNonGetHead ==
    \A c \in inflight :
        c.kind = "fetch" =>
            LET b == interpolate(c.env, c.request.body)
            IN  /\ c.request.method \in {"GET", "HEAD"} => ~c.body.present
                /\ (c.request.method \notin {"GET", "HEAD"} /\ b # <<>>)
                       => c.body = SomeBody(IF c.soap THEN soapEnvelope(b) ELSE b)

\* a HEAD call with a configured body is in flight
C4_Witness ==
    \E c \in inflight :
        /\ c.kind = "fetch"
        /\ c.request.method = "HEAD"
        /\ c.request.body # <<>>
        /\ ~c.body.present

----------------------------------------------------------------------------
(* SpecGen: the snippet shown in the code tab *)

ExecIdle ==
    /\ variant = "app1"
    /\ config = INITIAL_REQUEST
    /\ isSoap = FALSE
    /\ activeEnv = NoEnv
    /\ loading = FALSE
    /\ history = <<>>
    /\ originalResponse = NoResponse
    /\ inflight = {}
    /\ nextId = 0
    /\ completed = [id |-> 0, outcome |-> "none"]

InitGen ==
    /\ ExecIdle
    /\ RespIdle
    /\ LoadIdle
    /\ TableIdle
    /\ UiIdle
    /\ genVariant \in GenVariants
    /\ descriptor \in Descriptors
    /\ codeLanguage = DefaultLanguage(genVariant)
    /\ generatedCode = NotGenerated
    /\ JsonIdle
    /\ ImportIdle
    /\ SearchIdle

\* App.tsx 197-202: the code tab is opened and the effect generates the snippet
OpenCodeTab ==
    /\ ~generatedCode.called
    /\ generatedCode' = generateLocalCode(genVariant, descriptor, codeLanguage)
    /\ UNCHANGED <<genVariant, descriptor, codeLanguage>>
    /\ UNCHANGED notGen

\* App.tsx 431-432: a language button, then the effect of App.tsx 197-202;
\* an exception in the effect takes the component down
SetCodeLanguage(l) ==
    /\ generatedCode.called
    /\ ~generatedCode.raised
    /\ codeLanguage' = l
    /\ generatedCode' = generateLocalCode(genVariant, descriptor, l)
    /\ UNCHANGED <<genVariant, descriptor>>
    /\ UNCHANGED notGen

NextGen ==
    \/ OpenCodeTab
    \/ \E l \in TargetIds : SetCodeLanguage(l)

SpecGen == InitGen /\ [][NextGen]_vars

----------------------------------------------------------------------------
(* Claims on the snippet template engine *)

\* the chunks that open a body-setting statement in the templates
BodySetters ==
    {"--data-raw '", "-d '", "body: JSON.stringify(", "body: ", "data: ",
     "payload = ", "  payload := strings.NewReader(",
     "RequestBody body = RequestBody.create(mediaType, \""}

\* the snippet sets a body that carries the configured body: a body-setting
\* chunk is followed by the body, as it is or in one of the quotings
CarriesBody(text, body) ==
    /\ body # <<>>
    /\ \E i \in 1..Len(text) :
          /\ text[i] \in BodySetters
          /\ \E enc \in {body, <<BQ>> \o body, ShellEscape(body), JavaEscape(body),
                          JSONStringify(body)} :
                SubSeq(text, i + 1, i + Len(enc)) = enc

\* C5: for a descriptor whose method is GET or HEAD the snippet of every
\* target carries no body-setting statement, even when the body is non-empty.
C5_NoBodyForGetHead ==
    (generatedCode.called /\ descriptor.method \in {"GET", "HEAD"})
        => ~CarriesBody(generatedCode.text, descriptor.body)

\* C6: for every descriptor and every supported target (the ids of the
\* LANGUAGES list and the ids that have a template in the descriptor's mode)
\* generateLocalCode returns a non-empty string that contains the url.
C6_SnippetContainsUrl ==
    (/\ generatedCode.called
     /\ codeLanguage \in Offered(genVariant)
                           \cup Templates(genVariant, Mode(genVariant, descriptor)))
        => /\ ~generatedCode.raised
           /\ generatedCode.text # <<>>
           /\ Includes(generatedCode.text, descriptor.url)

\* a one-line comment: a single "// ..." line
IsPlaceholder(text) ==
    /\ text # <<>>
    /\ text[1] \in {"// Language not supported", "// No template for ",
                    "// Code template for ",
                    "// Code template for this configuration is being generated...",
                    "// FTP operations typically require a specialized client library (e.g., 'basic-ftp' in Node.js)."}
    /\ \A i \in 1..Len(text) : text[i] # NL

\* C7: generateLocalCode never raises, and for a target that has no template
\* in the descriptor's mode it returns a one-line placeholder comment.
C7_TotalWithPlaceholder ==
    generatedCode.called =>
        /\ ~generatedCode.raised
        /\ codeLanguage \notin Templates(genVariant, Mode(genVariant, descriptor))
              => IsPlaceholder(generatedCode.text)

----------------------------------------------------------------------------
(* SpecJson: quick operations on the response.  SpecFilter: the advanced filter *)

InitJson ==
    /\ ExecIdle
    /\ RespIdle
    /\ LoadIdle
    /\ TableIdle
    /\ UiIdle
    /\ GenIdle
    /\ ImportIdle
    /\ SearchIdle
    /\ processedData \in JsonInputs
    /\ currentActionCode = <<>>
    /\ criteria = <<>>
    /\ matchType = "AND"
    /\ Rendered(processedData, availableFields, flattenedData)

\* JsonOps.tsx 126-159, the case 'flatten'
handleQuickOp(type) ==
    /\ type = "flatten"
    /\ Truthy(processedData)
    /\ processedData' = FlattenData(processedData)
    /\ currentActionCode' = FlattenCode
    /\ Rendered(processedData', availableFields', flattenedData')
    /\ UNCHANGED <<criteria, matchType>>
    /\ UNCHANGED notJson

NextJson == handleQuickOp("flatten")

SpecJson == InitJson /\ [][NextJson]_vars

InitFilter ==
    /\ ExecIdle
    /\ RespIdle
    /\ LoadIdle
    /\ TableIdle
    /\ UiIdle
    /\ GenIdle
    /\ ImportIdle
    /\ SearchIdle
    /\ processedData \in FilterArrays
    /\ currentActionCode = <<>>
    /\ criteria \in CriteriaLists
    /\ matchType \in {"AND", "OR"}
    /\ Rendered(processedData, availableFields, flattenedData)

\* JsonOps.tsx 227: the AND / OR buttons
setMatchType(type) ==
    /\ matchType' = type
    /\ UNCHANGED <<processedData, currentActionCode, criteria, availableFields,
                   flattenedData>>
    /\ UNCHANGED notJson

\* JsonOps.tsx 62-124
handleAdvancedSearch ==
    /\ processedData.k = "array"
    /\ processedData' = JArr(KeptRows(processedData, criteria, matchType, 1))
    /\ currentActionCode' = IF Len(criteria) > 0 THEN FilterCode(criteria, matchType)
                            ELSE currentActionCode
    /\ Rendered(processedData', availableFields', flattenedData')
    /\ UNCHANGED <<criteria, matchType>>
    /\ UNCHANGED notJson

NextFilter ==
    \/ \E type \in {"AND", "OR"} : setMatchType(type)
    \/ handleAdvancedSearch

SpecFilter == InitFilter /\ [][NextFilter]_vars

----------------------------------------------------------------------------
(* Claims on the JSON query engine *)

\* the number of "." in a path
Dots(path) == Cardinality({ i \in 1..Len(path) : path[i] = "." })

\* C8: flatten is idempotent: what the quick operation flatten leaves is
\* left as it is by a second flatten, and so is every row the table
\* flattens (flatten(flatten(x)) = flatten(x)).
C8_FlattenIdempotent ==
    [][ handleQuickOp("flatten") =>
           /\ FlattenData(processedData') = processedData'
           /\ \A i \in 1..Len(flattenedData') :
                 flattenObject(flattenedData'[i], <<>>) = flattenedData'[i] ]_vars

\* a flatten has inlined an object nested in a nested object
C8_Witness ==
    /\ currentActionCode = FlattenCode
    /\ processedData.k = "object"
    /\ \E i \in 1..Len(processedData.m) :
          /\ Dots(processedData.m[i].key) >= 2
          /\ processedData.m[i].val.k = "number"

\* C9: for the same data and criteria the rows the advanced filter keeps
\* under AND are among the rows it keeps under OR.
C9_AndWithinOr ==
    [][ handleAdvancedSearch =>
           /\ Kept(processedData, criteria, "AND") \subseteq Kept(processedData, criteria, "OR")
           /\ matchType = "AND" =>
                 \A i \in 1..Len(processedData'.m) :
                    \E j \in Kept(processedData, criteria, "OR") :
                       processedData'.m[i].val = processedData.m[j].val ]_vars

\* the filter has run under AND with two different criteria, each on a
\* field, and has kept a row
C9_Witness ==
    /\ matchType = "AND"
    /\ Len(criteria) >= 2
    /\ criteria[1] # criteria[2]
    /\ \A i \in 1..Len(criteria) : criteria[i].field # <<>>
    /\ currentActionCode = FilterCode(criteria, "AND")
    /\ processedData.k = "array"
    /\ Len(processedData.m) >= 1

\* JsonOps.tsx 36-38: the nested objects extractPaths is called on
RECURSIVE DescendedInto(_, _)
DescendedInto(obj, prefix) ==
    IF ~Truthy(obj) \/ ~IsPlainObject(obj) THEN {}
    ELSE UNION { LET k    == obj.m[i].key
                     v    == obj.m[i].val
                     path == IF prefix # <<>> THEN prefix \o <<".">> \o k ELSE k
                 IN  IF Descends(v, path) THEN {v} \cup DescendedInto(v, path) ELSE {}
                 : i \in 1..Len(obj.m) }

\* C10: schema discovery lists no path with more than 2 dot separators and
\* descends into no nested object that has 10 or more own keys.
C10_DiscoveryBounded ==
    /\ \A i \in 1..Len(availableFields) : Dots(availableFields[i]) <= 2
    /\ LET items == SampledItems(processedData)
       IN  \A i \in 1..Len(items) :
              \A o \in DescendedInto(items[i], <<>>) : Len(o.m) < 10

----------------------------------------------------------------------------
(* SpecImport: the import dialog *)

InitImport ==
    /\ ExecIdle
    /\ RespIdle
    /\ LoadIdle
    /\ TableIdle
    /\ UiIdle
    /\ GenIdle
    /\ JsonIdle
    /\ SearchIdle
    /\ input \in ImportInputs
    /\ showImport = TRUE
    /\ requestConfig = InitialRequestFields

\* part_001 78-101, with onImport of App.tsx 267 and onClose of App.tsx 267
handleImport ==
    /\ showImport
    /\ LET trimmedInput == Trim(input)
       IN  IF trimmedInput = <<>>
           THEN UNCHANGED <<showImport, requestConfig>>
           ELSE /\ requestConfig' = Merged(requestConfig, ImportedConfig(trimmedInput))
                /\ showImport' = FALSE
    /\ UNCHANGED input
    /\ UNCHANGED notImport

\* part_001 111, 129: the close and Cancel buttons
onClose ==
    /\ showImport
    /\ showImport' = FALSE
    /\ UNCHANGED <<input, requestConfig>>
    /\ UNCHANGED notImport

NextImport ==
    \/ handleImport
    \/ onClose

SpecImport == InitImport /\ [][NextImport]_vars

----------------------------------------------------------------------------
(* Claims on the import dialog *)

\* what the import of a command is to leave in the request
Imported(cmd, cfg) ==
    /\ cmd.method.given => cfg.method = cmd.method.value
    /\ cfg.url = cmd.url.value
    /\ cfg.headers = [i \in 1..Len(cmd.headers) |->
                         [key |-> cmd.headers[i].key, value |-> cmd.headers[i].value,
                          enabled |-> TRUE]]
    /\ cmd.data.given => cfg.body = cmd.data.value

\* C11: importing a curl command leaves in the request the method given with
\* -X/--request, the quoted http(s) URL, one enabled header per -H/--header
\* argument in order, and as body the quoted argument of -d/--data*.
C11_CurlImport ==
    [][ \A cmd \in Commands :
           (handleImport /\ input = Render(cmd)) => Imported(cmd, requestConfig') ]_vars

\* the scenario of C11 alone: the command of the scenario is imported as stated
C11_Scenario ==
    [][ (handleImport /\ input = Render(ScenarioCommand)) =>
           /\ requestConfig'.method = Str_POST
           /\ requestConfig'.url = Url_apiTest
           /\ requestConfig'.headers = <<[key |-> Str_Authorization, value |-> Str_BearerT,
                                          enabled |-> TRUE]>>
           /\ requestConfig'.body = Body_a1 ]_vars

----------------------------------------------------------------------------
(* SpecSearch: the quick search *)

InitSearch ==
    /\ ExecIdle
    /\ RespIdle
    /\ LoadIdle
    /\ TableIdle
    /\ UiIdle
    /\ GenIdle
    /\ ImportIdle
    /\ processedData \in SearchArrays
    /\ currentActionCode = <<>>
    /\ criteria = <<>>
    /\ matchType = "AND"
    /\ Rendered(processedData, availableFields, flattenedData)
    /\ searchKey \in SearchKeys
    /\ shownRefs = FreshRefs(processedData)

\* JsonOps.tsx 196
setSearchKey(value) ==
    /\ searchKey' = value
    /\ UNCHANGED <<jsonVars, shownRefs>>
    /\ UNCHANGED notSearch

\* JsonOps.tsx 161-185
handleQuickSearch ==
    /\ searchKey # <<>>
    /\ IF Includes(searchKey, <<"=">>)
       THEN LET terms  == SearchTerms(searchKey)
                result == QuickSearchResult(processedData, shownRefs,
                                            terms.targetKey, terms.v)
            IN  /\ processedData' = JArr([i \in 1..Len(result) |-> result[i].val])
                /\ shownRefs' = [i \in 1..Len(result) |-> result[i].ref]
                /\ currentActionCode' = SearchCode(terms.targetKey, terms.v)
                /\ Rendered(processedData', availableFields', flattenedData')
       ELSE UNCHANGED <<processedData, shownRefs, currentActionCode, availableFields,
                        flattenedData>>
    /\ UNCHANGED <<criteria, matchType, searchKey>>
    /\ UNCHANGED notSearch

NextSearch ==
    \/ \E value \in SearchKeys : setSearchKey(value)
    \/ handleQuickSearch

SpecSearch == InitSearch /\ [][NextSearch]_vars

----------------------------------------------------------------------------
(* Claims on the quick search *)

\* the objects of a value in document order, an object before the objects
\* it holds, each with its reference
RECURSIVE ObjectsOf(_, _)
RECURSIVE ObjectsIn(_, _, _)
ObjectsOf(v, ref) ==
    IF v.k \notin {"object", "array"} THEN <<>>
    ELSE (IF v.k = "object" THEN <<[ref |-> ref, val |-> v]>> ELSE <<>>)
             \o ObjectsIn(v, ref, 1)

ObjectsIn(v, ref, i) ==
    IF i > Len(v.m) THEN <<>>
    ELSE ObjectsOf(v.m[i].val, Append(ref, v.m[i].key)) \o ObjectsIn(v, ref, i + 1)

RECURSIVE ObjectsShown(_, _, _)
ObjectsShown(data, refs, i) ==
    IF i > Len(data.m) THEN <<>>
    ELSE ObjectsOf(data.m[i].val, refs[i]) \o ObjectsShown(data, refs, i + 1)

\* the objects whose property key, coerced to a string, equals value: each
\* once, in document order
Matching(data, refs, q) ==
    LET all  == DedupeByRef(ObjectsShown(data, refs, 1), {})
        hits == SelectSeq(all, LAMBDA o : StringOf(Get(o.val, q.key)) = q.value)
    IN  [i \in 1..Len(hits) |-> hits[i].val]

\* C12: a quick search key=value over an array leaves exactly the objects
\* whose property key, coerced to a string, equals value, each once and in
\* the order of the input.
C12_QuickSearchExact ==
    [][ \A q \in Queries :
           (handleQuickSearch /\ searchKey = Form(q)) =>
               Items(processedData') = Matching(processedData, shownRefs, q) ]_vars

\* the same for the searches whose value holds no "==", and the scenario of
\* C12: status=active over [{status:"active",id:1},{status:"idle",id:2}]
\* leaves the first element
C12_SearchWithoutDoubleEquals ==
    [][ \A q \in Queries :
           (handleQuickSearch /\ searchKey = Form(q) /\ ~Includes(q.value, <<"=", "=">>)) =>
               /\ Items(processedData') = Matching(processedData, shownRefs, q)
               /\ (/\ q = Query(Str_status, Str_active)
                   /\ processedData =
                         JArr(<<JObj(<<P(Str_status, JStr(Str_active)), P(Str_id, JNum(1))>>),
                                JObj(<<P(Str_status, JStr(Str_idle)), P(Str_id, JNum(2))>>)>>))
                  => processedData' =
                         JArr(<<JObj(<<P(Str_status, JStr(Str_active)),
                                       P(Str_id, JNum(1))>>)>>) ]_vars

----------------------------------------------------------------------------
(* Claims on flatten *)

\* the leaves of an object in the order flatten visits them: the arrays and
\* scalars reached through nested non-array objects, each with its dotted path
RECURSIVE LeavesOf(_, _, _)
LeavesOf(obj, prefix, i) ==
    IF i > Len(obj.m) THEN <<>>
    ELSE LET k    == obj.m[i].key
             v    == obj.m[i].val
             path == IF prefix = <<>> THEN k ELSE prefix \o <<".">> \o k
         IN  (IF v.k = "object" THEN LeavesOf(v, path, 1)
              ELSE <<[path |-> path, val |-> v]>>)
                 \o LeavesOf(obj, prefix, i + 1)

\* every leaf of obj is a property of flat under its dotted path, and flat
\* has no other property
LeavesUnderTheirPaths(obj, flat) ==
    LET leaves == LeavesOf(obj, <<>>, 1)
    IN  /\ flat.k = "object"
        /\ \A i \in 1..Len(leaves) :
              \E j \in 1..Len(flat.m) :
                 flat.m[j].key = leaves[i].path /\ flat.m[j].val = leaves[i].val
        /\ \A j \in 1..Len(flat.m) :
              \E i \in 1..Len(leaves) :
                 flat.m[j].key = leaves[i].path /\ flat.m[j].val = leaves[i].val

\* the properties of flat are the dotted paths of the leaves of obj, each
\* with the value of the last leaf that has this dotted path
LastLeafUnderEachPath(obj, flat) ==
    LET leaves  == LeavesOf(obj, <<>>, 1)
        last(p) == CHOOSE i \in 1..Len(leaves) :
                      /\ leaves[i].path = p
                      /\ \A j \in (i + 1)..Len(leaves) : leaves[j].path # p
    IN  /\ flat.k = "object"
        /\ \A i \in 1..Len(leaves) :
              \E j \in 1..Len(flat.m) : flat.m[j].key = leaves[i].path
        /\ \A j \in 1..Len(flat.m) :
              /\ \E i \in 1..Len(leaves) : leaves[i].path = flat.m[j].key
              /\ flat.m[j].val = leaves[last(flat.m[j].key)].val

\* no two leaves of obj have the same dotted path
DistinctPaths(obj) ==
    LET leaves == LeavesOf(obj, <<>>, 1)
    IN  \A i, j \in 1..Len(leaves) : leaves[i].path = leaves[j].path => i = j

\* the objects a flatten is applied to: the response object, or the rows of
\* the response array that are objects, with their positions
ObjectRows(data) ==
    IF data.k = "object" THEN {0}
    ELSE IF data.k = "array" THEN { i \in 1..Len(data.m) : data.m[i].val.k = "object" }
    ELSE {}

RowOf(data, i) == IF i = 0 THEN data ELSE data.m[i].val

----------------------------------------------------------------------------
(* SpecResponse: what a call shows of the response *)

InitResponse ==
    /\ variant \in Variants
    /\ config = INITIAL_REQUEST
    /\ isSoap = FALSE
    /\ activeEnv = NoEnv
    /\ loading = FALSE
    /\ history = <<>>
    /\ originalResponse = NoResponse
    /\ inflight = {}
    /\ nextId = 0
    /\ completed = [id |-> 0, outcome |-> "none"]
    /\ reqHeaders = DEFAULT_HEADERS
    /\ transformationScript \in Scripts
    /\ responseData = NoResponseData
    /\ LoadIdle
    /\ TableIdle
    /\ UiIdle
    /\ GenIdle
    /\ JsonIdle
    /\ ImportIdle
    /\ SearchIdle

NextResponse ==
    \/ Send
    \/ \E c \in inflight : \E res \in Responses : Resolve(c, 200, res)
    \/ \E c \in inflight : Reject(c)

SpecResponse == InitResponse /\ [][NextResponse]_vars

----------------------------------------------------------------------------
(* Claims on the response *)

\* C14: the transformation script is invoked only when a script is
\* configured and the response was classified as JSON; when the invocation
\* raises, the data shown is the parsed body as it was before the
\* transformation, and the call completes and is recorded in the history.
C14_ScriptFailureFallsBack ==
    [][ \A c \in inflight : \A res \in Responses :
           (IsApp /\ Resolve(c, 200, res)) =>
               LET data == responseData'.data
                   type == responseData'.type
               IN  /\ (type # Str_json \/ c.script = "") => processedData' = data
                   /\ (type = Str_json /\ c.script # "" /\ Invoke(c.script, data).raised) =>
                          /\ processedData' = data
                          /\ completed' = [id |-> c.id, outcome |-> "ok"]
                          /\ Len(history') >= 1
                          /\ history'[1].id = c.id
                          /\ loading' = FALSE ]_vars

\* C15: a response whose content-type holds application/json is parsed and
\* tagged json, and is the raw text when it does not parse; otherwise one
\* whose content-type holds xml is tagged xml and left as text; otherwise
\* the data is the raw text, tagged text.
C15_ClassifiedByContentType ==
    [][ \A c \in inflight : \A res \in Responses :
           Resolve(c, 200, res) =>
               LET json == JSONparse(res.rawText)
               IN  IF Includes(res.contentType, Str_applicationJson)
                   THEN IF json.ok
                        THEN responseData'.data = json.val /\ responseData'.type = Str_json
                        ELSE responseData'.data = JStr(res.rawText)
                   ELSE IF Includes(res.contentType, Str_xml)
                        THEN responseData'.data = JStr(res.rawText)
                                 /\ responseData'.type = Str_xml
                   ELSE responseData'.data = JStr(res.rawText)
                            /\ responseData'.type = Str_text ]_vars

----------------------------------------------------------------------------
(* SpecInterpolate: the placeholders of a request *)

Text_k    == <<"{", "{", "k", "}", "}">>
Text_j    == <<"{", "{", "j", "}", "}">>
Text_kj   == <<"a">> \o Text_k \o <<"/">> \o Text_j \o Text_k
Url_k     == UrlHttp \o <<"/">> \o Text_k

Variable(key, value, enabled) == [key |-> key, value |-> value, enabled |-> enabled]

Env(variables) == [variables |-> variables, none |-> FALSE]

\* the environments of SpecInterpolate: none, one variable (enabled, not
\* enabled, with "$$" in its value, with "$&" in its value), two variables
InterpolateEnvironments ==
    {NoEnv,
     Env(<<Variable(<<"k">>, <<"v">>, TRUE)>>),
     Env(<<Variable(<<"k">>, <<"v">>, FALSE)>>),
     Env(<<Variable(<<"k">>, <<"a", "$", "$", "b">>, TRUE)>>),
     Env(<<Variable(<<"k">>, <<"$", "&">>, TRUE)>>),
     Env(<<Variable(<<"k">>, <<"v">>, TRUE), Variable(<<"j">>, <<"w", "1">>, TRUE)>>)}

InterpolateHeaders ==
    {DEFAULT_HEADERS,
     <<[key |-> Text_k, value |-> Text_kj, enabled |-> TRUE],
       [key |-> <<"h">>, value |-> Text_j, enabled |-> FALSE]>>}

InitInterpolate ==
    /\ variant \in {"app1", "app2"}
    /\ config \in [url : {UrlHttp, Url_k}, method : {"POST"}, body : {BodyText, Text_kj}]
    /\ isSoap = FALSE
    /\ activeEnv = NoEnv
    /\ loading = FALSE
    /\ history = <<>>
    /\ originalResponse = NoResponse
    /\ inflight = {}
    /\ nextId = 0
    /\ completed = [id |-> 0, outcome |-> "none"]
    /\ reqHeaders \in InterpolateHeaders
    /\ transformationScript = "return data;"
    /\ responseData = NoResponseData
    /\ LoadIdle
    /\ TableIdle
    /\ UiIdle
    /\ GenIdle
    /\ JsonIdle
    /\ ImportIdle
    /\ SearchIdle

NextInterpolate ==
    \/ \E e \in InterpolateEnvironments : SelectEnv(e)
    \/ Send
    \/ \E c \in inflight : Resolve(c, 200, PlainResponse)
    \/ \E c \in inflight : Reject(c)

SpecInterpolate == InitInterpolate /\ [][NextInterpolate]_vars

----------------------------------------------------------------------------
(* Claims on interpolation *)

\* the value of the first enabled variable with this key, if there is one
Lookup(env, key) ==
    LET hits == { i \in 1..Len(env.variables) :
                    /\ env.variables[i].enabled
                    /\ env.variables[i].key = key }
    IN  IF env.none \/ key = <<>> \/ hits = {} THEN [found |-> FALSE, value |-> <<>>]
        ELSE [found |-> TRUE, value |-> env.variables[Least(hits)].value]

\* text with every {{key}} replaced by the value of the enabled variable of
\* that key, in one pass from left to right; any other text is kept
RECURSIVE Replaced(_, _)
Replaced(env, text) ==
    IF text = <<>> THEN <<>>
    ELSE LET close == IF StartsWith(text, <<"{", "{">>)
                      THEN IndexFrom(text, <<"}", "}">>, 3) ELSE 0
             found == IF close = 0 THEN [found |-> FALSE, value |-> <<>>]
                      ELSE Lookup(env, SubSeq(text, 3, close - 1))
         IN  IF found.found
             THEN found.value \o Replaced(env, SubSeq(text, close + 2, Len(text)))
             ELSE <<Head(text)>> \o Replaced(env, Tail(text))

\* the headers with their keys and values replaced
RECURSIVE ReplacedHeaders(_, _, _)
ReplacedHeaders(env, headers, acc) ==
    IF headers = <<>> THEN acc
    ELSE LET h == Head(headers)
         IN  ReplacedHeaders(env, Tail(headers),
                 IF h.enabled /\ h.key # <<>>
                 THEN Put(acc, Replaced(env, h.key), Replaced(env, h.value))
                 ELSE acc)

\* the call a Send step starts
Started(c) == c \in inflight' /\ c \notin inflight

\* the url, body and headers of a call are those of the request with the
\* placeholders replaced
SentReplaced(c) ==
    /\ c.url = Replaced(activeEnv, config.url)
    /\ c.body = SomeBody(Replaced(activeEnv, config.body))
    /\ c.headers = ReplacedHeaders(activeEnv, reqHeaders, <<>>)

\* a "$" sequence in the value of a variable of the environment
HoldsDollar(env) ==
    \E i \in 1..Len(env.variables) : Includes(env.variables[i].value, <<"$">>)

\* C16: every {{key}} in the url, the body and the keys and values of the
\* headers is replaced by the value of the enabled variable of that key in
\* the active environment; a placeholder without such a variable, and every
\* placeholder when no environment is active, is sent as it is.
C16_PlaceholdersReplaced ==
    [][ \A c \in inflight' : (Send /\ Started(c)) => SentReplaced(c) ]_vars

\* the same for the environments whose values hold no "$"
C16_ReplacedWithoutDollar ==
    [][ \A c \in inflight' :
           (Send /\ Started(c) /\ ~HoldsDollar(activeEnv)) => SentReplaced(c) ]_vars

----------------------------------------------------------------------------
(* SpecLoad: the first render *)

InitLoad ==
    /\ variant \in Variants
    /\ config = INITIAL_REQUEST
    /\ isSoap = FALSE
    /\ activeEnv = NoEnv
    /\ loading = FALSE
    /\ history = <<>>
    /\ originalResponse = NoResponse
    /\ inflight = {}
    /\ nextId = 0
    /\ completed = [id |-> 0, outcome |-> "none"]
    /\ RespIdle
    /\ GenIdle
    /\ JsonIdle
    /\ ImportIdle
    /\ SearchIdle
    /\ TableIdle
    /\ UiIdle
    /\ \E key \in StorageKeys : \E s \in {NotStored} \cup { Stored(t) : t \in StoredTexts } :
          localStorage = [EmptyStorage EXCEPT ![key] = s]
    /\ mounted = "no"
    /\ loadedDocs = [key \in StorageKeys |-> NotLoaded]

\* the first render: the initial values of the state hooks (App.tsx 28-56,
\* 491-500, Editor.tsx 155-159, 749-756); it fails when a loader raises
Mount ==
    /\ mounted = "no"
    /\ loadedDocs' = [key \in StorageKeys |->
                         IF key \in LoadedKeys(variant)
                         THEN Load(variant, key, localStorage[key]) ELSE NotLoaded]
    /\ mounted' = IF \E key \in StorageKeys : loadedDocs'[key].raised THEN "failed" ELSE "yes"
    /\ UNCHANGED localStorage
    /\ UNCHANGED <<execVars, genVars, jsonVars, importVars, searchVars, respVars, tableVars, uiVars>>

NextLoad == Mount

SpecLoad == InitLoad /\ [][NextLoad]_vars

----------------------------------------------------------------------------
(* Claims on the loaders *)

\* the documents a revision stores as JSON (Editor.tsx 764 stores the theme
\* as it is)
JsonDocuments(v) ==
    IF v = "ed2" THEN LoadedKeys(v) \ {"nova_theme"} ELSE LoadedKeys(v)

\* C17: for every persisted document, when the stored text does not parse
\* as JSON the loader returns the hardcoded default of the document and
\* does not fail.
C17_DefaultOnParseFailure ==
    [][ Mount =>
           /\ mounted' = "yes"
           /\ \A key \in JsonDocuments(variant) :
                 (localStorage[key].present /\ ~JSONparse(localStorage[key].text).ok) =>
                     loadedDocs'[key] = Loaded(DefaultOf(variant, key)) ]_vars

----------------------------------------------------------------------------
(* SpecTable: the table of the response *)

\* the array the second revision's table is shown for
ServerArrays ==
    { JArr(<<JObj(<<P(Key_a, JStr(<<"B">>))>>),
             JObj(<<P(Key_a, JNum(1))>>)>>) }

InitTable ==
    /\ variant \in {"app1", "app2"}
    /\ config \in [url : {UrlHttp}, method : {"GET"},
                   body : IF variant = "app2" THEN TableBodies ELSE {BodyEmpty}]
    /\ isSoap = FALSE
    /\ activeEnv = NoEnv
    /\ loading = FALSE
    /\ history = <<>>
    /\ originalResponse = NoResponse
    /\ inflight = {}
    /\ nextId = 0
    /\ completed = [id |-> 0, outcome |-> "none"]
    /\ RespIdle
    /\ LoadIdle
    /\ UiIdle
    /\ GenIdle
    /\ ImportIdle
    /\ processedData \in (IF variant = "app2" THEN ServerArrays ELSE TableArrays)
    /\ currentActionCode = <<>>
    /\ criteria = <<>>
    /\ matchType = "AND"
    /\ Rendered(processedData, availableFields, flattenedData)
    /\ searchKey = <<>>
    /\ shownRefs = FreshRefs(processedData)
    /\ mode = "client"
    /\ columnFilters = <<>>
    /\ sortKey = JNull
    /\ sortOrder = "asc"
    /\ bodyType = "none"
    /\ processedRows = flattenedData

\* what the table's handlers leave alone
notTable ==
    <<variant, isSoap, activeEnv, loading, history, originalResponse, inflight, nextId,
      completed, genVars, processedData, criteria, matchType, availableFields,
      flattenedData, importVars, searchVars, respVars, loadVars, uiVars>>

\* the render after a change of the table's state: the memo of DataTable.tsx
\* 53-80 and the effect of DataTable.tsx 82-109
TableRendered ==
    /\ processedRows' \in ProcessedOutcomes(mode', flattenedData, columnFilters',
                                            sortKey', sortOrder')
    /\ currentActionCode' = TableCode(mode', columnFilters', sortKey', sortOrder')

\* onServerSideAction: App.tsx 427 (nothing) and App.tsx 650-671
onServerSideAction(filters, sort) ==
    IF variant = "app2"
    THEN /\ config' = [config EXCEPT !.body = MergedBody(config.body, filters, sort)]
         /\ bodyType' = "json"
    ELSE UNCHANGED <<config, bodyType>>

\* DataTable.tsx 152 / 158, App.tsx 427, and the effect of DataTable.tsx 21-24
onModeChange(m) ==
    /\ mode' = m
    /\ LET st == [columnFilters |-> columnFilters, sortKey |-> sortKey]
           after == IF m # mode THEN ModeEffect(st) ELSE st
       IN  /\ columnFilters' = after.columnFilters
           /\ sortKey' = after.sortKey
    /\ UNCHANGED <<sortOrder, config, bodyType>>
    /\ IF m # mode THEN TableRendered
       ELSE UNCHANGED <<processedRows, currentActionCode>>
    /\ UNCHANGED notTable

\* DataTable.tsx 111-116
handleSort(key) ==
    LET newOrder == IF sortKey = JStr(key) /\ sortOrder = "asc" THEN "desc" ELSE "asc"
    IN  /\ sortKey' = JStr(key)
        /\ sortOrder' = newOrder
        /\ IF mode = "server"
           THEN onServerSideAction(columnFilters, SortObject(JStr(key), newOrder))
           ELSE UNCHANGED <<config, bodyType>>
        /\ UNCHANGED <<mode, columnFilters>>
        /\ TableRendered
        /\ UNCHANGED notTable

\* DataTable.tsx 118-122
updateColumnFilter(key, val) ==
    LET newFilters == Put(columnFilters, key, val)
    IN  /\ columnFilters' = newFilters
        /\ IF mode = "server"
           THEN onServerSideAction(newFilters, SortObject(sortKey, sortOrder))
           ELSE UNCHANGED <<config, bodyType>>
        /\ UNCHANGED <<mode, sortKey, sortOrder>>
        /\ TableRendered
        /\ UNCHANGED notTable

\* the columns shown
Columns == { tableHeaders(flattenedData)[i] : i \in 1..Len(tableHeaders(flattenedData)) }

NextTable ==
    \/ \E m \in {"client", "server"} : onModeChange(m)
    \/ \E key \in Columns : handleSort(key)
    \/ \E key \in Columns : \E val \in FilterTexts : updateColumnFilter(key, val)

SpecTable == InitTable /\ [][NextTable]_vars

----------------------------------------------------------------------------
(* Claims on the table *)

\* C18 as stated: whenever the mode changes, the column filters, the sort key
\* and the sort direction are all back at their initial values.
C18_ModeChangeResetsAll ==
    [][ mode' # mode =>
           /\ columnFilters' = <<>>
           /\ sortKey' = JNull
           /\ sortOrder' = "asc" ]_vars

\* C18, amended: whenever the mode changes, the column filters and the sort
\* key are back at their initial values, the rows shown are the flattened
\* input rows and no code is generated; the sort direction keeps its value,
\* and the first sort after that is ascending whatever that value is.
C18_FiltersAndSortKeyReset ==
    [][ /\ mode' # mode =>
             /\ columnFilters' = <<>>
             /\ sortKey' = JNull
             /\ sortOrder' = sortOrder
             /\ processedRows' = flattenedData'
             /\ currentActionCode' = <<>>
        /\ sortKey = JNull /\ sortKey' # JNull => sortOrder' = "asc" ]_vars

\* the mode has changed after a descending sort of a filtered column
C18_Witness ==
    /\ mode = "server"
    /\ columnFilters = <<>>
    /\ sortKey = JNull
    /\ sortOrder = "desc"
    /\ Len(processedRows) >= 2

IsNullish(v) == v.k \in {"null", "undefined"}

\* rows i and j of the table stand in the order of the direction
InDirection(x, y, order) ==
    /\ x.k = "string" /\ y.k = "string" =>
          IF order = "asc" THEN ~StrLess(toLowerCase(y.s), toLowerCase(x.s))
          ELSE ~StrLess(toLowerCase(x.s), toLowerCase(y.s))
    /\ x.k = "number" /\ y.k = "number" =>
          IF order = "asc" THEN x.n <= y.n ELSE x.n >= y.n

\* C19: in client mode with a sort key set, every row whose value for the
\* sort key is null or undefined stands after every row with a value, in
\* both directions, and two rows that both hold strings, or both hold
\* numbers, stand in the case-insensitive string order, or the numeric
\* order, of the direction.
C19_NullsLastAndOrdered ==
    mode = "client" /\ Truthy(sortKey) =>
       \A i, j \in 1..Len(processedRows) :
          i < j =>
             LET x == Get(processedRows[i], sortKey.s)
                 y == Get(processedRows[j], sortKey.s)
             IN  /\ IsNullish(x) => IsNullish(y)
                 /\ InDirection(x, y, sortOrder)

\* the part of C19 on null and undefined alone
C19_NullsLast ==
    mode = "client" /\ Truthy(sortKey) =>
       \A i, j \in 1..Len(processedRows) :
          i < j /\ IsNullish(Get(processedRows[i], sortKey.s))
             => IsNullish(Get(processedRows[j], sortKey.s))

\* C20: in server mode the rows shown are all the flattened input rows in
\* input order, whatever the column filters and the sort are.
C20_ServerShowsInput ==
    mode = "server" =>
       /\ processedRows = flattenedData
       /\ flattenedData = FlattenedData(processedData)

\* server mode with a sort key and a filter that no row but one passes
C20_Witness ==
    /\ mode = "server"
    /\ Truthy(sortKey)
    /\ Len(processedRows) >= 2
    /\ Len(ApplyFilters(flattenedData, columnFilters, 1)) < Len(flattenedData)

----------------------------------------------------------------------------
(* Claims on malformed patterns of the advanced filter *)

\* the criteria of the list that are regex criteria with a malformed pattern
MalformedAt(crit) ==
    { i \in 1..Len(crit) : crit[i].op = "regex" /\ Malformed(crit[i].value) }

\* the rows the other criteria keep under OR: those one of them matches
KeptByOthers(data, crit, i) ==
    { r \in 1..Len(data.m) :
         \E j \in 1..Len(crit) : j # i /\ EvalCriterion(crit[j], data.m[r].val) }

\* what the filter makes of the malformed regex criterion at i
MalformedIgnored(i) ==
    /\ \A r \in 1..Len(processedData.m) :
          ~EvalCriterion(criteria[i], processedData.m[r].val)
    /\ matchType = "AND" => processedData'.m = <<>>
    /\ matchType = "OR" =>
          /\ Kept(processedData, criteria, "OR") = KeptByOthers(processedData, criteria, i)
          /\ processedData' = JArr(KeptRows(processedData, criteria, "OR", 1))

\* C21 as stated: a regex criterion whose pattern is malformed is false for
\* every row, so that under AND the filter keeps no row and under OR it keeps
\* the rows the other criteria keep.
C21_MalformedIsFalse ==
    [][ handleAdvancedSearch =>
           \A i \in MalformedAt(criteria) : MalformedIgnored(i) ]_vars

\* C21 for criteria on a field: a regex criterion with a field and a
\* malformed pattern is false for every row, so that under AND the filter
\* keeps no row and under OR it keeps the rows the other criteria keep; a
\* criterion without a field is true for every row whatever its pattern.
C21_MalformedOnFieldIsFalse ==
    [][ handleAdvancedSearch =>
           \A i \in MalformedAt(criteria) :
              IF criteria[i].field # <<>> THEN MalformedIgnored(i)
              ELSE \A r \in 1..Len(processedData.m) :
                      EvalCriterion(criteria[i], processedData.m[r].val) ]_vars

\* the filter has run under OR with a malformed regex criterion on a field
\* and another criterion, and has kept a row
C21_Witness ==
    /\ matchType = "OR"
    /\ \E i \in MalformedAt(criteria) : criteria[i].field # <<>>
    /\ Len(criteria) >= 2
    /\ currentActionCode = FilterCode(criteria, "OR")
    /\ processedData.k = "array"
    /\ Len(processedData.m) >= 1

----------------------------------------------------------------------------
(* Claims on a failed call *)

\* the call c has ended in the catch block and the finally block
FailureContained(c) ==
    /\ inflight' = inflight \ {c}
    /\ completed' = [id |-> c.id, outcome |-> "fail"]
    /\ loading' = FALSE

\* the synthetic response of the catch block is the response shown
SyntheticResponse ==
    /\ originalResponse' = [status |-> 0]
    /\ responseData'.data.k = "object"
    /\ Get(responseData'.data, Str_error).k = "string"
    /\ processedData' = responseData'.data

----------------------------------------------------------------------------
(* Claims on the mode of the snippet template engine *)

\* the mode of a descriptor by the four-way rule: the url first, then the method
FourWayMode(d) ==
    IF StartsWith(d.url, Str_ftp) THEN "ftp"
    ELSE IF d.method = "MONGO_QUERY" THEN "mongo-query"
    ELSE IF d.method = "SQL_QUERY" THEN "sql-query"
    ELSE "rest"

\* the modes revision v tells apart
ModesOf(v) ==
    CASE v = "gen1" -> {"rest"}
      [] v = "gen2" -> {"mongo-query", "sql-query", "rest"}
      [] v = "gen3" -> {"ftp", "rest"}

\* the comment revision v returns in mode m for an identifier without a template
PlaceholderOf(v, m, language, d) ==
    CASE v = "gen1" -> <<"// Language not supported">>
      [] v = "gen2" /\ m = "mongo-query" ->
             <<"// No template for ", language, " in MongoDB mode.">>
      [] v = "gen2" /\ m = "sql-query" ->
             <<"// No template for ", language, " in SQL mode.">>
      [] v = "gen2" /\ m = "rest" ->
             <<"// Code template for ", language, " / ", d.method,
               " is pending implementation.">>
      [] v = "gen3" /\ m = "ftp" ->
             <<"// FTP operations typically require a specialized client library (e.g., 'basic-ftp' in Node.js).">>
      [] v = "gen3" /\ m = "rest" ->
             <<"// Code template for this configuration is being generated...">>

----------------------------------------------------------------------------
(* Claims on the headers of a snippet *)

\* the positions of the chunk tok in text, in ascending order
RECURSIVE Positions(_, _, _)
Positions(text, tok, i) ==
    IF i > Len(text) THEN <<>>
    ELSE (IF text[i] = tok THEN <<i>> ELSE <<>>) \o Positions(text, tok, i + 1)

\* the entries of the header list that are enabled and have a key
Picked(hs) == SelectSeq(hs, LAMBDA h : h.enabled /\ h.key # <<>>)

\* the chunk that opens a header option of the curl template of revision v
CurlOpener(v) == IF v = "gen1" THEN "--header '" ELSE "-H \""

\* the templates of revision v that serialize the headers as a JSON object
ObjectTemplates(v) ==
    CASE v = "gen1" -> {"javascript", "python"}
      [] v = "gen2" -> {"javascript-fetch", "javascript-axios", "python-requests"}
      [] v = "gen3" -> {"react-axios", "angular-http", "nextjs-server", "js-fetch"}

\* the member "key": "value" of a serialized object
Member(h) == JSONStringify(h.key) \o <<": ">> \o JSONStringify(h.value)

\* C24: the curl snippet holds one header option for every entry of the
\* header list that is enabled and has a non-empty key, in the order of the
\* list and with duplicates, and none for any other entry; a snippet that
\* serializes the headers as a JSON object holds for every key the value of
\* the last such entry with that key, and not the value of an earlier one.
C24_HeadersEmitted ==
    (generatedCode.called /\ ~generatedCode.raised) =>
        LET text   == generatedCode.text
            m      == Mode(genVariant, descriptor)
            picked == Picked(descriptor.headers)
            pos    == Positions(text, CurlOpener(genVariant), 1)
            last   == { i \in 1..Len(picked) :
                          \A j \in (i + 1)..Len(picked) : picked[j].key # picked[i].key }
        IN  /\ (codeLanguage = "curl" /\ "curl" \in Templates(genVariant, m)) =>
                  /\ Len(pos) = Len(picked)
                  /\ \A k \in 1..Len(picked) :
                        LET h == picked[k]
                            n == Len(h.key) + 1 + Len(h.value)
                        IN  SubSeq(text, pos[k] + 1, pos[k] + n)
                               = h.key \o <<": ">> \o h.value
            /\ (m = "rest" /\ codeLanguage \in ObjectTemplates(genVariant)) =>
                  /\ \A i \in last : Includes(text, Member(picked[i]))
                  /\ \A i \in (1..Len(picked)) \ last :
                        (\A j \in last : Member(picked[j]) # Member(picked[i]))
                           => ~Includes(text, Member(picked[i]))
                  /\ \A i \in 1..Len(descriptor.headers) :
                        ~descriptor.headers[i].enabled \/ descriptor.headers[i].key = <<>>
                           => \/ ~Includes(text, Member(descriptor.headers[i]))
                              \/ \E j \in last : Member(picked[j]) = Member(descriptor.headers[i])

\* a curl snippet for a list of two entries with the same key, an entry
\* with another key between them, and a disabled entry
C24_Witness ==
    /\ generatedCode.called
    /\ codeLanguage = "curl"
    /\ genVariant \in {"gen1", "gen2"}
    /\ Mode(genVariant, descriptor) = "rest"
    /\ Len(descriptor.headers) = 4
    /\ Len(Positions(generatedCode.text, CurlOpener(genVariant), 1)) = 3

----------------------------------------------------------------------------
(* Claims on the server-side action of the table *)

\* a column filter or the sort is changed
TableChange ==
    \/ \E key \in Columns : handleSort(key)
    \/ \E key \in Columns : \E val \in FilterTexts : updateColumnFilter(key, val)

OwnKeys(v) == { Spread(v)[i].key : i \in 1..Len(Spread(v)) }

\* the object new holds the handed filters and sort
HoldsHanded(new) ==
    /\ new.ok
    /\ new.val.k = "object"
    /\ Get(new.val, Str_filters) = FiltersObject(columnFilters')
    /\ Get(new.val, Str_sort) = SortObject(sortKey', sortOrder')

\* the object new holds every other key of the value old as it was
KeepsOthers(old, new) ==
    /\ \A k \in OwnKeys(old) \ {Str_filters, Str_sort} :
          Get(new.val, k) = Get(JObj(Spread(old)), k)
    /\ OwnKeys(new.val) = OwnKeys(old) \cup {Str_filters, Str_sort}

\* the merge as stated, prev and new being the bodies before and after, parsed
MergedAsStated(prev, new) ==
    /\ HoldsHanded(new)
    /\ prev.ok => KeepsOthers(prev.val, new)
    /\ ~prev.ok => Get(new.val, Str_original) = JStr(config.body)

\* the merge of handleServerSideAction
MergedAsCoded(prev, new) ==
    /\ HoldsHanded(new)
    /\ bodyType' = "json"
    /\ prev.ok => KeepsOthers(prev.val, new)
    /\ (~prev.ok /\ config.body # <<>>) =>
          KeepsOthers(JObj(<<P(Str_original, JStr(config.body))>>), new)
    /\ config.body = <<>> => OwnKeys(new.val) = {Str_filters, Str_sort}

\* C25 as stated: in server mode, after a change of a column filter or of
\* the sort, the request body is a JSON object whose filters and sort are
\* the current ones and whose other top-level keys are those of the previous
\* JSON body, unchanged; a previous body that is not valid JSON is the value
\* of the key original.
C25_BodyMerged ==
    [][ (mode = "server" /\ TableChange) =>
           MergedAsStated(JSONparse(config.body), JSONparse(config'.body)) ]_vars

\* C25 by caller: where the caller is handleServerSideAction the body is
\* merged as stated, except that an empty previous body is not kept under
\* original: the new body then holds filters and sort alone; where the
\* caller is the empty function of the first App revision the request is
\* left as it is; the filters and sort handed are the ones the table holds
\* after the change.
C25_BodyMergedByCaller ==
    [][ (mode = "server" /\ TableChange) =>
           IF variant = "app2"
           THEN MergedAsCoded(JSONparse(config.body), JSONparse(config'.body))
           ELSE UNCHANGED <<config, bodyType>> ]_vars

\* in server mode a filter and a sort have been merged into a body that held
\* the key q
C25_Witness ==
    /\ variant = "app2"
    /\ mode = "server"
    /\ bodyType = "json"
    /\ Truthy(sortKey)
    /\ columnFilters # <<>>
    /\ LET body == JSONparse(config.body)
       IN  /\ body.ok
           /\ Get(body.val, <<"q">>) = JNum(1)
           /\ Get(body.val, Str_sort) = SortObject(sortKey, sortOrder)
           /\ Get(body.val, Str_filters) = FiltersObject(columnFilters)

----------------------------------------------------------------------------
(* SpecHistory: the request editor and the history records *)

notHist ==
    <<execVars, genVars, jsonVars, importVars, searchVars, respVars, loadVars, tableVars,
      envVars, authVars>>

InitHistory ==
    /\ variant \in {"app1", "app2"}
    /\ config = INITIAL_REQUEST
    /\ isSoap = FALSE
    /\ activeEnv = NoEnv
    /\ loading = FALSE
    /\ history = <<>>
    /\ originalResponse = NoResponse
    /\ inflight = {}
    /\ nextId = 0
    /\ completed = [id |-> 0, outcome |-> "none"]
    /\ RespIdle
    /\ LoadIdle
    /\ TableIdle
    /\ UiIdle
    /\ GenIdle
    /\ JsonIdle
    /\ ImportIdle
    /\ SearchIdle

\* one more edit of the request
Edited ==
    /\ editCount < MaxEdits
    /\ editCount' = editCount + 1

\* App.tsx 356-364, 809-814: h2 = [...config.headers]; h2[i][field] = v;
\* setConfig({...config, headers: h2}): the array is new, the object at i is
\* the one config.headers[i] refers to
EditHeader(i, field, v) ==
    /\ i \in 1..Len(editorConfig.headers)
    /\ field = "enabled" => variant = "app1"
    /\ Edited
    /\ headerObjects' = [headerObjects EXCEPT ![editorConfig.headers[i]][field] = v]
    /\ UNCHANGED <<editorConfig, historyItems, sending>>
    /\ UNCHANGED notHist

\* App.tsx 365: config.headers.filter((_, idx) => idx !== i)
DeleteHeaderRow(i) ==
    /\ variant = "app1"
    /\ i \in 1..Len(editorConfig.headers)
    /\ Edited
    /\ editorConfig' = [editorConfig EXCEPT !.headers =
                           [k \in 1..(Len(@) - 1) |-> IF k < i THEN @[k] ELSE @[k + 1]]]
    /\ UNCHANGED <<headerObjects, historyItems, sending>>
    /\ UNCHANGED notHist

\* App.tsx 368, 817: [...config.headers, {key: '', value: '', enabled: true}]
AddHeaderRow ==
    /\ Len(headerObjects) < MaxHeaderObjects
    /\ Edited
    /\ headerObjects' = Append(headerObjects, [key |-> <<>>, value |-> <<>>, enabled |-> TRUE])
    /\ editorConfig' = [editorConfig EXCEPT !.headers = Append(@, Len(headerObjects) + 1)]
    /\ UNCHANGED <<historyItems, sending>>
    /\ UNCHANGED notHist

\* App.tsx 318, 326, 371 (767, 775, 820): setConfig({ ...config, [field]: v })
EditField(field, v) ==
    /\ Edited
    /\ editorConfig' = [editorConfig EXCEPT ![field] = v]
    /\ UNCHANGED <<headerObjects, historyItems, sending>>
    /\ UNCHANGED notHist

\* App.tsx 282, 743: setConfig(item.request)
HistoryClick(k) ==
    /\ k \in 1..Len(historyItems)
    /\ Edited
    /\ editorConfig' = historyItems[k].request
    /\ UNCHANGED <<headerObjects, historyItems, sending>>
    /\ UNCHANGED notHist

\* App.tsx 97-150 (541-590): the Execute button, enabled while no call is in
\* flight, starts handleSend, which keeps the config of this render
SendStarted ==
    /\ ~sending.active
    /\ Len(historyItems) < MaxRequests
    /\ sending' = [active |-> TRUE, config |-> editorConfig]
    /\ UNCHANGED <<headerObjects, editorConfig, historyItems, editCount>>
    /\ UNCHANGED notHist

\* App.tsx 167-173 (602-608): request: { ...config } copies the fields of
\* the config, so the record's headers are the array of the config
RecordStored ==
    /\ sending.active
    /\ historyItems' = PrependCapped(historyItems,
                            [id |-> Len(historyItems) + 1, request |-> sending.config])
    /\ sending' = NoSend
    /\ UNCHANGED <<headerObjects, editorConfig, editCount>>
    /\ UNCHANGED notHist

\* App.tsx 178-194 (613-629): the call fails, nothing is recorded
SendFailed ==
    /\ sending.active
    /\ sending' = NoSend
    /\ UNCHANGED <<headerObjects, editorConfig, historyItems, editCount>>
    /\ UNCHANGED notHist

NextHistory ==
    \/ \E i \in 1..MaxHeaderObjects :
          \/ EditHeader(i, "key", <<"A">>)
          \/ EditHeader(i, "value", <<"1">>)
          \/ \E b \in BOOLEAN : EditHeader(i, "enabled", b)
          \/ DeleteHeaderRow(i)
    \/ AddHeaderRow
    \/ EditField("url", UrlFtp)
    \/ EditField("method", "POST")
    \/ EditField("body", BodyText)
    \/ \E k \in 1..MaxRequests : HistoryClick(k)
    \/ SendStarted
    \/ RecordStored
    \/ SendFailed

SpecHistory == InitHistory /\ [][NextHistory]_vars

----------------------------------------------------------------------------
(* Claims on the history records *)

\* the request req as it reads: each header by its fields
Reads(req, objects) ==
    [url |-> req.url, method |-> req.method, body |-> req.body,
     headers |-> [i \in 1..Len(req.headers) |-> objects[req.headers[i]]]]

\* C26: once a record is stored, no edit of the request in the editor
\* changes what the record's request reads, also after the record has been
\* loaded into the editor.
C26_RecordIsSnapshot ==
    [][ \A k \in 1..Len(historyItems) :
           \A n \in 1..Len(historyItems') :
              historyItems'[n].id = historyItems[k].id =>
                 Reads(historyItems'[n].request, headerObjects')
                    = Reads(historyItems[k].request, headerObjects) ]_vars

\* the part of C26 on the url, the method, the body and the rows of the
\* header list: the record keeps them, and which objects its rows are
C26_FieldsAreSnapshot ==
    [][ \A k \in 1..Len(historyItems) :
           \A n \in 1..Len(historyItems') :
              historyItems'[n].id = historyItems[k].id =>
                 historyItems'[n].request = historyItems[k].request ]_vars

----------------------------------------------------------------------------
(* SpecEnv: the environment list and its selections *)

notEnv ==
    <<execVars, genVars, jsonVars, importVars, searchVars, respVars, loadVars, tableVars,
      histVars, authVars>>

InitEnv ==
    /\ ExecIdle
    /\ RespIdle
    /\ LoadIdle
    /\ TableIdle
    /\ UiIdle
    /\ GenIdle
    /\ JsonIdle
    /\ ImportIdle
    /\ SearchIdle

\* environments[0]?.id || null
FirstEnvId(envs) == IF envs # <<>> THEN envs[1] ELSE NullId

\* App.tsx 268 and the useState initializer of SettingsModal
OpenSettings ==
    /\ ~showSettings
    /\ showSettings' = TRUE
    /\ selectedEnvId' = FirstEnvId(environments)
    /\ UNCHANGED <<environments, activeEnvId, nextEnvId>>
    /\ UNCHANGED notEnv

\* App.tsx 268 onClose: the modal unmounts and its state is gone
CloseSettings ==
    /\ showSettings
    /\ showSettings' = FALSE
    /\ selectedEnvId' = NullId
    /\ UNCHANGED <<environments, activeEnvId, nextEnvId>>
    /\ UNCHANGED notEnv

\* SettingsModal addEnv
addEnv ==
    /\ showSettings
    /\ nextEnvId < MaxEnvs
    /\ nextEnvId' = nextEnvId + 1
    /\ environments' = Append(environments, nextEnvId + 1)
    /\ selectedEnvId' = nextEnvId + 1
    /\ UNCHANGED <<activeEnvId, showSettings>>
    /\ UNCHANGED notEnv

\* SettingsModal: a click on an environment of the sidebar
setSelectedEnvId(id) ==
    /\ showSettings
    /\ id \in Range(environments)
    /\ selectedEnvId' = id
    /\ UNCHANGED <<environments, activeEnvId, showSettings, nextEnvId>>
    /\ UNCHANGED notEnv

\* SettingsModal deleteEnv: the selection it leaves; envs is the list of
\* this render, which still holds id
deleteEnvSelection(envs, selected, id) ==
    IF selected = id THEN FirstEnvId(envs) ELSE selected

\* SettingsModal deleteEnv
deleteEnv(id) ==
    /\ showSettings
    /\ id \in Range(environments)
    /\ environments' = SelectSeq(environments, LAMBDA e : e # id)
    /\ selectedEnvId' = deleteEnvSelection(environments, selectedEnvId, id)
    /\ UNCHANGED <<activeEnvId, showSettings, nextEnvId>>
    /\ UNCHANGED notEnv

\* App.tsx 233-240: the select of the top bar, "No Environment" being null
setActiveEnvId(id) ==
    /\ id \in Range(environments) \cup {NullId}
    /\ activeEnvId' = id
    /\ UNCHANGED <<environments, showSettings, selectedEnvId, nextEnvId>>
    /\ UNCHANGED notEnv

NextEnv ==
    \/ OpenSettings
    \/ CloseSettings
    \/ addEnv
    \/ \E id \in 1..MaxEnvs : setSelectedEnvId(id)
    \/ \E id \in 1..MaxEnvs : deleteEnv(id)
    \/ \E id \in 0..MaxEnvs : setActiveEnvId(id)

SpecEnv == InitEnv /\ [][NextEnv]_vars

----------------------------------------------------------------------------
(* Claims on the environment selections *)

Exists(id) == id = NullId \/ id \in Range(environments)

\* C27: the environment selected in the settings panel and the active
\* environment of the app are each null or the id of an environment of the
\* list.
C27_SelectionsExist ==
    /\ Exists(selectedEnvId)
    /\ Exists(activeEnvId)

\* the part of C27 that holds: adding an environment and selecting one
\* leave both selections null or in the list if they were
C27_AddAndSelectKeep ==
    [][ (addEnv \/ OpenSettings \/ CloseSettings
          \/ (\E id \in 1..MaxEnvs : setSelectedEnvId(id))
          \/ (\E id \in 0..MaxEnvs : setActiveEnvId(id)))
        => /\ Exists(selectedEnvId) => Exists(selectedEnvId)'
           /\ Exists(activeEnvId) => Exists(activeEnvId)' ]_vars

----------------------------------------------------------------------------
(* SpecAuth: the local profiles (AuthModal) *)

Str_username ==
    <<"u", "s", "e", "r", "n", "a", "m", "e">>

Str_password ==
    <<"p", "a", "s", "s", "w", "o", "r", "d">>

\* the texts typed into the two fields
Usernames == {<<>>, <<"a">>, <<"b">>}
Passwords == {<<>>, <<"p">>, <<"q">>}

notAuth ==
    <<execVars, genVars, jsonVars, importVars, searchVars, respVars, loadVars, tableVars,
      histVars, envVars>>

InitAuth ==
    /\ ExecIdle
    /\ RespIdle
    /\ LoadIdle
    /\ TableIdle
    /\ UiIdle
    /\ GenIdle
    /\ JsonIdle
    /\ ImportIdle
    /\ SearchIdle

\* { username, password }
User(username, password) ==
    JObj(<<P(Str_username, JStr(username)), P(Str_password, JStr(password))>>)

\* localStorage.getItem('nova_users') || '[]'
SavedUsersText(item) ==
    IF item.present /\ item.text # <<>> THEN item.text ELSE <<"[", "]">>

\* savedUsers.find(pred): the index of the first match, 0 if none
FindUser(savedUsers, username, password, withPassword) ==
    LET hits == { i \in 1..Len(savedUsers.m) :
                    /\ Get(savedUsers.m[i].val, Str_username) = JStr(username)
                    /\ withPassword =>
                          Get(savedUsers.m[i].val, Str_password) = JStr(password) }
    IN  IF hits = {} THEN 0 ELSE CHOOSE i \in hits : \A j \in hits : i <= j

\* the branches of handleSubmit without the test for an existing username
SubmitOutcome_NoDuplicateTest(login, savedUsers, username, password) ==
    LET refused(msg) == [auth |-> JNull, users |-> savedUsers, stored |-> FALSE,
                         error |-> msg]
        found == FindUser(savedUsers, username, password, TRUE)
    IN  IF username = <<>> \/ password = <<>> THEN refused("Please fill in all fields")
        ELSE IF login
        THEN (IF found # 0
              THEN [auth |-> savedUsers.m[found].val, users |-> savedUsers,
                    stored |-> FALSE, error |-> ""]
              ELSE refused("Invalid username or password"))
        ELSE [auth   |-> User(username, password),
              users  |-> JArr(Append(Items(savedUsers), User(username, password))),
              stored |-> TRUE, error |-> ""]

\* AuthModal.tsx 18-48: whom handleSubmit authenticates, the list it leaves,
\* whether it stores the list, and the message it shows
SubmitOutcome(login, savedUsers, username, password) ==
    LET refused(msg) == [auth |-> JNull, users |-> savedUsers, stored |-> FALSE,
                         error |-> msg]
        found == FindUser(savedUsers, username, password, TRUE)
    IN  IF username = <<>> \/ password = <<>> THEN refused("Please fill in all fields")
        ELSE IF login
        THEN (IF found # 0
              THEN [auth |-> savedUsers.m[found].val, users |-> savedUsers,
                    stored |-> FALSE, error |-> ""]
              ELSE refused("Invalid username or password"))
        ELSE IF FindUser(savedUsers, username, password, FALSE) # 0
        THEN refused("Username already exists")
        ELSE [auth   |-> User(username, password),
              users  |-> JArr(Append(Items(savedUsers), User(username, password))),
              stored |-> TRUE, error |-> ""]

\* App.tsx 260, 269: the modal mounts with its initial state
OpenAuth ==
    /\ ~showAuth
    /\ user = JNull
    /\ showAuth' = TRUE
    /\ isLogin' = TRUE
    /\ error' = ""
    /\ UNCHANGED <<novaUsers, user, authOutcome>>
    /\ UNCHANGED notAuth

\* AuthModal.tsx: Cancel
CancelAuth ==
    /\ showAuth
    /\ showAuth' = FALSE
    /\ UNCHANGED <<novaUsers, user, isLogin, error, authOutcome>>
    /\ UNCHANGED notAuth

\* AuthModal.tsx: the link between login and registration
ToggleLogin ==
    /\ showAuth
    /\ isLogin' = ~isLogin
    /\ error' = ""
    /\ UNCHANGED <<novaUsers, user, showAuth, authOutcome>>
    /\ UNCHANGED notAuth

\* AuthModal.tsx 18-48, out being what the submission comes to
Submitted(out) ==
    /\ error' = out.error
    /\ novaUsers' = IF out.stored THEN Stored(Stringify(out.users, <<>>, <<>>))
                     ELSE novaUsers
    /\ IF out.auth # JNull
       THEN /\ user' = out.auth
            /\ showAuth' = FALSE
            /\ authOutcome' = "auth"
       ELSE /\ UNCHANGED <<user, showAuth>>
            /\ authOutcome' = "refused"
    /\ UNCHANGED isLogin
    /\ UNCHANGED notAuth

\* AuthModal.tsx 18-48, json being JSON.parse of the stored text
handleSubmitOn(username, password, json) ==
    /\ showAuth
    /\ (username # <<>> /\ password # <<>>) => (json.ok /\ json.val.k = "array")
    /\ Submitted(SubmitOutcome(isLogin, IF json.ok THEN json.val ELSE JArr(<<>>),
                               username, password))

handleSubmit(username, password) ==
    handleSubmitOn(username, password, JSONparse(SavedUsersText(novaUsers)))

\* App.tsx 257: Logout
Logout ==
    /\ user # JNull
    /\ user' = JNull
    /\ UNCHANGED <<novaUsers, showAuth, isLogin, error, authOutcome>>
    /\ UNCHANGED notAuth

NextAuth ==
    \/ OpenAuth
    \/ CancelAuth
    \/ ToggleLogin
    \/ \E username \in Usernames : \E password \in Passwords :
          handleSubmit(username, password)
    \/ Logout

SpecAuth == InitAuth /\ [][NextAuth]_vars

----------------------------------------------------------------------------
(* Claims on the local profiles *)

\* the stored list: JSON.parse of the text under nova_users, [] without one
SavedUsers == JSONparse(SavedUsersText(novaUsers))

\* the usernames of the stored list, in its order
StoredNames(json) == [i \in 1..Len(json.val.m) |-> Get(json.val.m[i].val, Str_username)]

\* no two entries of the stored list have the same username
UniqueNames(json) ==
    /\ json.ok
    /\ json.val.k = "array"
    /\ \A i, j \in 1..Len(json.val.m) :
          i # j => StoredNames(json)[i] # StoredNames(json)[j]

\* a submission that must change nothing: a field is empty, or it is a
\* registration of a username of the stored list
Refusable(username, password, json) ==
    \/ username = <<>>
    \/ password = <<>>
    \/ ~isLogin /\ \E i \in 1..Len(json.val.m) : StoredNames(json)[i] = JStr(username)

\* C28: no two entries of the stored user list have the same username, and
\* a submission with an empty username or password, or a registration of a
\* username of the list, leaves the list as it is and authenticates nobody.
C28_UniqueUsernames ==
    /\ []UniqueNames(SavedUsers)
    /\ [][ \A username \in Usernames : \A password \in Passwords :
              (handleSubmit(username, password) /\ Refusable(username, password, SavedUsers))
                 => /\ novaUsers' = novaUsers
                    /\ user' = user
                    /\ authOutcome' = "refused"
                    /\ showAuth' ]_vars

\* a registration of a stored username was refused while the list held two
\* profiles
C28_Witness ==
    /\ ~isLogin
    /\ authOutcome = "refused"
    /\ error = "Username already exists"
    /\ novaUsers.present
    /\ Len(SavedUsers.val.m) = 2

----------------------------------------------------------------------------
(* SpecReset: the advanced filter with its Reset All button *)

\* JsonOps.tsx 301-306: setCriteria([]); handleAdvancedSearch(): the handler
\* called is the one of this render, whose criteria are the ones shown when
\* the button is pressed
ResetAll ==
    /\ criteria' = <<>>
    /\ IF processedData.k = "array"
       THEN /\ processedData' = JArr(KeptRows(processedData, criteria, matchType, 1))
            /\ currentActionCode' = IF Len(criteria) > 0 THEN FilterCode(criteria, matchType)
                                    ELSE currentActionCode
       ELSE UNCHANGED <<processedData, currentActionCode>>
    /\ Rendered(processedData', availableFields', flattenedData')
    /\ UNCHANGED matchType
    /\ UNCHANGED notJson

NextReset ==
    \/ NextFilter
    \/ ResetAll

SpecReset == InitFilter /\ [][NextReset]_vars

----------------------------------------------------------------------------
(* Claims on Reset All *)

\* C29: Reset All leaves the criteria list empty and the data shown is the
\* whole array it was pressed on, no row filtered out.
C29_ResetShowsAll ==
    [][ ResetAll =>
           /\ criteria' = <<>>
           /\ processedData.k = "array" => processedData' = processedData ]_vars

\* what Reset All does: the criteria list is empty afterwards and the rows
\* shown are those the criteria shown before kept
C29_ResetFiltersOnceMore ==
    [][ ResetAll =>
           /\ criteria' = <<>>
           /\ processedData.k = "array" =>
                 /\ Len(processedData'.m) = Cardinality(Kept(processedData, criteria, matchType))
                 /\ criteria = <<>> => processedData' = processedData ]_vars

----------------------------------------------------------------------------
(* SpecExecute: the execution driver behind the Execute button, under fairness *)

\* the Execute button with its disabled={loading} left out
Execute_WhileLoading == Send

\* App.tsx 332, 781, Editor.tsx 347, 900: the Execute button, disabled while
\* loading is true, is the only caller of handleSend / executeRequest
Execute ==
    /\ ~loading
    /\ Send

\* the call c settles: the awaited fetch is fulfilled or rejected, or the
\* timer of the simulated FTP transfer fires
Settle(c) ==
    \/ \E status \in {200, 404} : Resolve(c, status, PlainResponse)
    \/ Reject(c)
    \/ FtpDone(c)

NextExecute ==
    \/ \E u \in Urls : SetUrl(u)
    \/ Execute
    \/ \E c \in inflight : Settle(c)

\* every awaited promise settles: the event loop runs the continuation of a
\* call in flight
SpecExecute ==
    /\ Init
    /\ [][NextExecute]_vars
    /\ WF_vars(\E c \in inflight : Settle(c))

----------------------------------------------------------------------------
(* Claims on the Execute button *)

\* C30: with calls started by the Execute button alone, at most one call is
\* in flight, loading is true exactly while a call is in flight, and a call
\* that has been started leads to loading being false again, whether it is
\* fulfilled, rejected or simulated.
C30_OneCallAndLoadingEnds ==
    /\ [](Cardinality(inflight) <= 1)
    /\ [](loading <=> inflight # {})
    /\ loading ~> ~loading
    /\ \A n \in 1..(MaxRequests + 1) :
          (nextId = n /\ loading) ~> (completed.id = n /\ ~loading)

\* a second call, started after the first had ended, has ended in the
\* simulated FTP transfer
C30_Witness ==
    /\ nextId >= 2
    /\ completed = [id |-> nextId, outcome |-> "ftp"]
    /\ ~loading
    /\ inflight = {}

====
